---------------------------- MODULE Spec2Model ----------------------------
(***************************************************************************)
(* RE/flex regular expression pattern compiler (lib/pattern.cpp).          *)
(*                                                                         *)
(* The model follows Pattern::init: init_options, parse (parse1..parse4    *)
(* with the position functions firstpos/lastpos/nullable/followpos),       *)
(* compile (one step per state of the traversal list), and assemble        *)
(* (export_dfa, compact_dfa, encode_dfa, delete_dfa, export_code).         *)
(*                                                                         *)
(* Characters are their ASCII codes, the regex is a sequence of codes      *)
(* (rex, 1-based; Location values are 0-based as in the source).           *)
(* Position is the packed word of pattern.h, kept as a number so that the  *)
(* numeric order of the word is the order of the std::set containers.      *)
(* An exception thrown by Pattern::error is the sticky field `thrown` of   *)
(* the parse context: once set nothing more is recorded, and the action    *)
(* that ran the code ends in pc = "error".                                 *)
(***************************************************************************)
EXTENDS Integers, Sequences, FiniteSets, TLC

---------------------------------------------------------------------------
(* Bounds of the model *)

\* width in bits of Pattern::Index (uint16_t in the library), scaled down so
\* that range overflow and opcode-count overflow happen in small patterns
IndexBits == 4

\* longest regex enumerated over Alphabet
MaxLen == 3

\* longest input string the DFA is run on
MaxRun == 4

---------------------------------------------------------------------------
(* Index range *)

RECURSIVE Pow2(_)
Pow2(n) == IF n = 0 THEN 1 ELSE 2 * Pow2(n - 1)

IndexMod == Pow2(IndexBits)

IMAX == IndexMod - 1

\* static_cast<Index>(k)
ToIndex(k) == k % IndexMod

---------------------------------------------------------------------------
(* Characters *)

Ord ==
  [c \in {"a", "b", "c", "z", "A", "B", "Z", "E", "Q", "i", "j", "l", "m", "q", "s", "x",
          "|", "*", "+", "?", "(", ")", "[", "]", "{", "}", ",", "-", "^", "$",
          ".", "/", "\\", "\"", "=", ":", "#", "<", ">", " ", "!", "_",
          "0", "1", "2", "3", "4", "5", "6", "7", "8", "9", "r", "w", "e", "f", "n", "p", "u", "d", "D", ";",
          "g", "v", "h"} |->
     CASE c = "a" -> 97 [] c = "b" -> 98 [] c = "c" -> 99 [] c = "z" -> 122
       [] c = "A" -> 65 [] c = "B" -> 66 [] c = "Z" -> 90 [] c = "E" -> 69 [] c = "Q" -> 81
       [] c = "i" -> 105 [] c = "j" -> 106 [] c = "l" -> 108 [] c = "m" -> 109
       [] c = "q" -> 113 [] c = "s" -> 115 [] c = "x" -> 120
       [] c = "|" -> 124 [] c = "*" -> 42 [] c = "+" -> 43 [] c = "?" -> 63
       [] c = "(" -> 40 [] c = ")" -> 41 [] c = "[" -> 91 [] c = "]" -> 93
       [] c = "{" -> 123 [] c = "}" -> 125 [] c = "," -> 44 [] c = "-" -> 45
       [] c = "^" -> 94 [] c = "$" -> 36 [] c = "." -> 46 [] c = "/" -> 47
       [] c = "\\" -> 92 [] c = "\"" -> 34 [] c = "=" -> 61 [] c = ":" -> 58
       [] c = "#" -> 35 [] c = "<" -> 60 [] c = ">" -> 62 [] c = " " -> 32
       [] c = "!" -> 33 [] c = "_" -> 95
       [] c = "0" -> 48 [] c = "1" -> 49 [] c = "2" -> 50 [] c = "3" -> 51
       [] c = "4" -> 52 [] c = "5" -> 53 [] c = "6" -> 54 [] c = "7" -> 55
       [] c = "8" -> 56 [] c = "9" -> 57
       [] c = "r" -> 114 [] c = "w" -> 119 [] c = "e" -> 101 [] c = "f" -> 102
       [] c = "n" -> 110 [] c = "p" -> 112 [] c = "u" -> 117 [] c = "d" -> 100
       [] c = "D" -> 68 [] c = ";" -> 59
       [] c = "g" -> 103 [] c = "v" -> 118 [] c = "h" -> 104]

\* a text written as a sequence of one-character strings, as character codes
Str(s) == [k \in 1..Len(s) |-> Ord[s[k]]]

IsDigit(c) == c \in 48..57
IsUpper(c) == c \in 65..90
IsLower(c) == c \in 97..122
IsAlpha(c) == IsUpper(c) \/ IsLower(c)
IsAlnum(c) == IsAlpha(c) \/ IsDigit(c)
IsXDigit(c) == IsDigit(c) \/ c \in 65..70 \/ c \in 97..102
IsSpace(c) == c \in 9..13 \/ c = 32
ToUpper(c) == IF IsLower(c) THEN c - 32 ELSE c
ToLower(c) == IF IsUpper(c) THEN c + 32 ELSE c

\* meta characters, above the bytes
META_MIN == 256
META_NWB == 257
META_NWE == 258
META_BWB == 259
META_EWB == 260
META_BWE == 261
META_EWE == 262
META_BOL == 263
META_EOL == 264
META_BOB == 265
META_EOB == 266
META_IND == 267
META_DED == 268
META_MAX == 269

is_meta(c) == c > 255

Bytes == 0..255

---------------------------------------------------------------------------
(* Position: the packed word  lazy | accept anchor greedy ticked | iter | loc *)

PosBase == IndexMod
TICKED == PosBase * PosBase
GREEDY == 2 * TICKED
ANCHOR == 4 * TICKED
ACCEPT == 8 * TICKED
LAZY == 16 * TICKED
NPOS == LAZY * PosBase - 1

p_loc(p) == p % PosBase
p_accepts(p) == p % PosBase
p_iter(p) == (p \div PosBase) % PosBase
p_ticked(p) == (p \div TICKED) % 2 = 1
p_greedy(p) == (p \div GREEDY) % 2 = 1
p_anchor(p) == (p \div ANCHOR) % 2 = 1
p_accept(p) == (p \div ACCEPT) % 2 = 1
p_lazy(p) == p \div LAZY
p_pos(p) == p % TICKED

set_iter(p, i) == p + PosBase * i
set_ticked(p, b) == IF b = p_ticked(p) THEN p ELSE IF b THEN p + TICKED ELSE p - TICKED
set_greedy(p, b) == IF b = p_greedy(p) THEN p ELSE IF b THEN p + GREEDY ELSE p - GREEDY
set_anchor(p, b) == IF b = p_anchor(p) THEN p ELSE IF b THEN p + ANCHOR ELSE p - ANCHOR
set_accept(p, b) == IF b = p_accept(p) THEN p ELSE IF b THEN p + ACCEPT ELSE p - ACCEPT
set_lazy(p, l) == (p % LAZY) + LAZY * l

SetMax(S) == CHOOSE x \in S : \A y \in S : y <= x
SetMin(S) == CHOOSE x \in S : \A y \in S : x <= y

\* an order in which every position set is less than every other: the search of
\* compile finds no state
PositionsLess_Always(A, B) == TRUE

\* operator< of two std::set<Position>: lexicographic on the ascending elements
PositionsLess(A, B) ==
  /\ A # B
  /\ LET d == SetMin((A \ B) \cup (B \ A))
     IN  IF d \in A THEN \E b \in B : b > d ELSE ~ \E a \in A : a > d

---------------------------------------------------------------------------
(* Ranges (ORanges): a set of values; the stored ranges are its maximal runs *)

RunLos(S) == {c \in S : (c - 1) \notin S}
RunHi(S, lo) == SetMin({h \in S : h >= lo /\ (h + 1) \notin S})

\* number of stored ranges
RangesSize(S) == Cardinality(RunLos(S))

\* std::distance(begin, find(loc)): index of the range that holds loc
RangeIndex(S, loc) == Cardinality({c \in RunLos(S) : c <= loc}) - 1

---------------------------------------------------------------------------
(* Options *)

NoOptions ==
  [b |-> FALSE, i |-> FALSE, l |-> FALSE, m |-> FALSE, q |-> FALSE, r |-> FALSE,
   s |-> FALSE, w |-> FALSE, x |-> FALSE, e |-> 92, n |-> <<>>, f |-> <<>>,
   overread |-> FALSE]

\* character k (0-based) of a NUL-terminated string; 0 at the terminator
CharAt(str, k) == IF k < Len(str) THEN str[k + 1] ELSE 0

\* the f= / n= name loop of init_options: s and t are cursors into the string
RECURSIVE OptionNames(_, _, _, _)
OptionNames(o, str, s, t) ==
  IF CharAt(str, s) = 59 \/ CharAt(str, s) = 0
  THEN [o |-> o, s |-> s]
  ELSE LET ct == CharAt(str, t)
       IN  IF ct = 44 \/ IsSpace(ct) \/ ct = 59 \/ ct = 0
           THEN LET name == SubSeq(str, s + 2, t)
                    o1 == IF t > s + 1
                          THEN IF \A k \in 1..Len(name) : name[k] # 46
                               THEN [o EXCEPT !.n = name]
                               ELSE [o EXCEPT !.f = Append(@, name)]
                          ELSE o
                IN  OptionNames(o1, str, t, t + 1)
           ELSE OptionNames(o, str, s, t + 1)

\* the loop over the option string; s is the cursor
RECURSIVE InitOptionsFrom(_, _, _)
InitOptionsFrom(o, str, s) ==
  IF s > Len(str) THEN [o EXCEPT !.overread = TRUE]
  ELSE IF CharAt(str, s) = 0 THEN o
  ELSE LET c == CharAt(str, s)
       IN  CASE c = 98 -> InitOptionsFrom([o EXCEPT !.b = TRUE], str, s + 1)
             [] c = 101 ->
                  LET s1 == s + (IF CharAt(str, s + 1) = 61 THEN 1 ELSE 0) + 1
                      e1 == IF CharAt(str, s1) = 59 THEN 0 ELSE CharAt(str, s1)
                  IN  InitOptionsFrom([o EXCEPT !.e = e1], str, s1 + 1)
             [] c = 105 -> InitOptionsFrom([o EXCEPT !.i = TRUE], str, s + 1)
             [] c = 108 -> InitOptionsFrom([o EXCEPT !.l = TRUE], str, s + 1)
             [] c = 109 -> InitOptionsFrom([o EXCEPT !.m = TRUE], str, s + 1)
             [] c = 113 -> InitOptionsFrom([o EXCEPT !.q = TRUE], str, s + 1)
             [] c = 114 -> InitOptionsFrom([o EXCEPT !.r = TRUE], str, s + 1)
             [] c = 115 -> InitOptionsFrom([o EXCEPT !.s = TRUE], str, s + 1)
             [] c = 119 -> InitOptionsFrom([o EXCEPT !.w = TRUE], str, s + 1)
             [] c = 120 -> InitOptionsFrom([o EXCEPT !.x = TRUE], str, s + 1)
             [] c = 102 \/ c = 110 ->
                  LET s1 == s + (IF CharAt(str, s + 1) = 61 THEN 1 ELSE 0)
                      r == OptionNames(o, str, s1, s1)
                  IN  InitOptionsFrom(r.o, str, (r.s - 1) + 1)
             [] OTHER -> InitOptionsFrom(o, str, s + 1)

init_options(str) == InitOptionsFrom(NoOptions, str, 0)

\* what may stand in memory after the terminator of the option string, up to the
\* next NUL: nothing, or characters that the loop takes for options
AfterTerminator == {<<>>, <<114>>, <<105, 119>>}

\* the outcomes of init_options(str): when the cursor passes the terminator the
\* loop goes on over what stands after it, until it meets a NUL
InitOptions(str) ==
  IF init_options(str).overread
  THEN {[InitOptionsFrom(init_options(str), tail, 0) EXCEPT !.overread = TRUE] :
          tail \in AfterTerminator}
  ELSE {init_options(str)}

---------------------------------------------------------------------------
(* Errors *)

REGEX_SYNTAX == "REGEX_SYNTAX"
REGEX_RANGE == "REGEX_RANGE"
REGEX_LIST == "REGEX_LIST"
CODE_OVERFLOW == "CODE_OVERFLOW"

ErrorCodes == {REGEX_SYNTAX, REGEX_RANGE, REGEX_LIST, CODE_OVERFLOW}

\* Pattern::error without the test of the code: only option r throws
ErrorThrows_OnlyR(o, code) == o.r

\* Pattern::error without the test of option r: only CODE_OVERFLOW throws
ErrorThrows_OnlyOverflow(o, code) == code = CODE_OVERFLOW

\* Pattern::error: does the call throw?
ErrorThrows(o, code) == o.r \/ code = CODE_OVERFLOW

\* Pattern::error: is the error displayed?
ErrorDisplays(o, code) == o.w

\* Pattern::error in a context c with the fields opt, errs, shown, thrown.
\* errs lists the calls of error() in order; nothing runs after a throw.
Error(c, code, loc) ==
  IF c.thrown # "none" THEN c
  ELSE [c EXCEPT !.errs = Append(@, <<code, loc>>),
                 !.shown = IF ErrorDisplays(c.opt, code) THEN Append(@, code) ELSE @,
                 !.thrown = IF ErrorThrows(c.opt, code) THEN code ELSE "none"]

---------------------------------------------------------------------------
(* Source cursor *)

\* at(loc)
At(c, k) == CharAt(c.rex, k)

\* escape_at(loc): the escape letter at loc, or 0
escape_at(c, k) == IF c.opt.e # 0 /\ At(c, k) = c.opt.e THEN At(c, k + 1) ELSE 0

\* escapes_at(loc, escapes): the escape letter at loc when it is one of set, or 0
escapes_at(c, k, set) == IF escape_at(c, k) \in set THEN escape_at(c, k) ELSE 0

\* find_at(loc, ch): first location >= k of character ch, or -1 (npos)
RECURSIVE find_at(_, _, _)
find_at(c, k, ch) ==
  IF k >= Len(c.rex) THEN -1
  ELSE IF At(c, k) = ch THEN k ELSE find_at(c, k + 1, ch)

\* eq_at(loc, s)
eq_at(c, k, s) == k + Len(s) <= Len(c.rex) /\ SubSeq(c.rex, k + 1, k + Len(s)) = s

ClassTest(kind, ch) ==
  CASE kind = "digit" -> IsDigit(ch)
    [] kind = "xdigit" -> IsXDigit(ch)
    [] kind = "alnum" -> IsAlnum(ch)
    [] kind = "space" -> IsSpace(ch)

\* first location >= k, at most max steps on, whose character is not of the kind
RECURSIVE Skip(_, _, _, _)
Skip(c, k, kind, max) ==
  IF max > 0 /\ ClassTest(kind, At(c, k)) THEN Skip(c, k + 1, kind, max - 1) ELSE k

\* is_modified(mode, modifiers, loc)
is_modified(mode, modifiers, loc) == mode \in DOMAIN modifiers /\ loc \in modifiers[mode]

\* modifiers[mode].insert(lo, hi)
ModInsert(modifiers, mode, lo, hi) ==
  [k \in DOMAIN modifiers \cup {mode} |->
     (IF k \in DOMAIN modifiers THEN modifiers[k] ELSE {}) \cup (IF k = mode THEN lo..hi ELSE {})]

---------------------------------------------------------------------------
(* Follow map *)

EmptyFollow == [k \in {} |-> {}]

\* set_insert(followpos[k], S) for every key k of K
FAdd(f, K, S) ==
  [k \in DOMAIN f \cup K |->
     (IF k \in DOMAIN f THEN f[k] ELSE {}) \cup (IF k \in K THEN S ELSE {})]

\* set_insert(f[k], g[k]) for every key k of g
FMerge(f, g) ==
  [k \in DOMAIN f \cup DOMAIN g |->
     (IF k \in DOMAIN f THEN f[k] ELSE {}) \cup (IF k \in DOMAIN g THEN g[k] ELSE {})]

---------------------------------------------------------------------------
(* Laziness and greediness *)

\* lazy(lazypos, pos, pos1): the positions added to pos1
lazy3(lazypos, pos) == {set_lazy(p, p_loc(q)) : p \in pos, q \in lazypos}

\* lazy(lazypos, pos)
lazy2(lazypos, pos) == IF lazypos # {} THEN lazy3(lazypos, pos) ELSE pos

\* greedy(pos)
greedy(pos) == {set_greedy(set_lazy(p, 0), TRUE) : p \in pos}

\* trim_lazy: S is the set, bound the base of the reverse iterator
\* (the elements >= bound have been passed)
RECURSIVE TrimLazyFrom(_, _)
TrimLazyFrom(S, bound) ==
  LET below == {x \in S : x < bound}
  IN  IF below = {} THEN S
      ELSE LET p == SetMax(below)
               l == p_lazy(p)
           IN  IF l = 0 THEN S
               ELSE IF p_accept(p) \/ p_anchor(p)
               THEN LET S1 == (S \cup {set_lazy(p, 0)}) \ {p}
                        S2 == S1 \ {x \in S1 : x < bound /\ p_lazy(x) = l}
                    IN  TrimLazyFrom(S2, bound)
               ELSE IF ~ p_greedy(p) THEN S
               ELSE TrimLazyFrom(S \cup {set_lazy(p, 0)}, p)

trim_lazy(pos) == TrimLazyFrom(pos, NPOS + 1)

---------------------------------------------------------------------------
(* Parser *)

\* the outputs firstpos, lastpos, nullable, lazypos, iter of a parse function
Out(c, fp, lp, nl, lz, it) ==
  [c EXCEPT !.firstpos = fp, !.lastpos = lp, !.nullable = nl, !.lazypos = lz, !.iter = it]

parse_esc(c) ==
  LET loc == c.loc
      ch == At(c, loc + 1)
  IN  IF At(c, loc) = c.opt.e /\ c.opt.e # 0 /\ ch # 0
      THEN IF ch = 48
           THEN [c EXCEPT !.loc = Skip(c, loc + 2, "digit", 3)]
           ELSE IF ch \in {112, 117, 120} /\ At(c, loc + 2) = 123
           THEN LET k == Skip(c, loc + 3, IF ch = 112 THEN "alnum" ELSE "xdigit", Len(c.rex))
                IN  IF At(c, k) = 125
                    THEN [c EXCEPT !.loc = k + 1]
                    ELSE Error([c EXCEPT !.loc = k], REGEX_SYNTAX, k)
           ELSE IF ch = 120
           THEN [c EXCEPT !.loc = Skip(c, loc + 2, "xdigit", 2)]
           ELSE LET k == IF ch = 99 THEN loc + 2 ELSE loc + 1
                IN  IF At(c, k) # 0
                    THEN [c EXCEPT !.loc = k + 1]
                    ELSE Error([c EXCEPT !.loc = k], REGEX_SYNTAX, k)
      ELSE [c EXCEPT !.loc = loc + 1]

RECURSIVE parse1(_, _), parse1_loop(_, _), parse2(_, _), parse2_loop(_, _, _), parse3(_, _), parse4(_, _)

\* parse4, (?#...): the location of the first ) or NUL after loc
RECURSIVE CommentEnd(_, _)
CommentEnd(c, k) == IF At(c, k) # 0 /\ At(c, k) # 41 THEN CommentEnd(c, k + 1) ELSE k

\* parse4, modifier group: the do-while loop that sets the flags; c.loc is at the flag
RECURSIVE ModifierFlags(_)
ModifierFlags(c) ==
  LET ch == At(c, c.loc)
      c1 == CASE ch = 105 -> [c EXCEPT !.opt.i = TRUE]
              [] ch = 108 -> [c EXCEPT !.opt.l = TRUE]
              [] ch = 109 -> [c EXCEPT !.opt.m = TRUE]
              [] ch = 113 -> [c EXCEPT !.opt.q = TRUE]
              [] ch = 115 -> [c EXCEPT !.opt.s = TRUE]
              [] ch = 120 -> [c EXCEPT !.opt.x = TRUE]
              [] OTHER -> Error(c, REGEX_SYNTAX, c.loc)
      c2 == [c1 EXCEPT !.loc = c.loc + 1]
      nx == At(c, c.loc + 1)
  IN  IF nx # 0 /\ nx # 58 /\ nx # 41 THEN ModifierFlags(c2) ELSE c2

\* parse4, modifier group: the do-while loop that records the scopes of the flags
RECURSIVE ModifierScopes(_, _)
ModifierScopes(c, m_loc) ==
  LET ch == At(c, m_loc)
      c1 == IF ch # 0 /\ ch # 113 /\ ch # 120 /\ ch # 58 /\ ch # 41
            THEN [c EXCEPT !.modifiers = ModInsert(@, ch, m_loc + 1, c.loc)]
            ELSE c
  IN  IF ch # 0 /\ ch # 58 /\ ch # 41 THEN ModifierScopes(c1, m_loc + 1) ELSE c1

\* parse4, modifier group: the character that ends the loop over the scopes
RECURSIVE ModifierStop(_, _)
ModifierStop(c, m_loc) ==
  LET ch == At(c, m_loc)
  IN  IF ch # 0 /\ ch # 58 /\ ch # 41 THEN ModifierStop(c, m_loc + 1) ELSE ch

\* parse4, bracket list: the while loop; ch is the character at k
RECURSIVE ListEnd(_, _, _)
ListEnd(c, k, ch) ==
  IF ch = 0 THEN [loc |-> k, ch |-> 0]
  ELSE LET c_loc == find_at(c, k + 2, 58)
           k1 == IF ch = 91 /\ At(c, k + 1) = 58 /\ c_loc # -1 /\ At(c, c_loc + 1) = 93
                 THEN c_loc + 1 ELSE k
       IN  IF At(c, k1 + 1) = 93
           THEN [loc |-> k1 + 2, ch |-> 93]
           ELSE ListEnd(c, k1 + 1, At(c, k1 + 1))

\* is the character at k inside the quotation (not its closing " or \E)?
InQuote(c, k, quoted) ==
  /\ At(c, k) # 0
  /\ (~ quoted \/ At(c, k) # 34)
  /\ (quoted \/ At(c, k) # c.opt.e \/ At(c, k + 1) # 69)

\* parse4, quotation: the do-while loop; p is the previous position
RECURSIVE QuoteBody(_, _, _)
QuoteBody(c, p, quoted) ==
  LET k == IF At(c, c.loc) = 92 /\ At(c, c.loc + 1) = 34 /\ quoted THEN c.loc + 1 ELSE c.loc
      f == IF p # NPOS THEN FAdd(c.followpos, {p}, {k}) ELSE c.followpos
      c1 == [c EXCEPT !.followpos = f, !.loc = k + 1]
  IN  IF InQuote(c1, k + 1, quoted) THEN QuoteBody(c1, k, quoted) ELSE [c1 EXCEPT !.lastpos = {k}]

\* parse4, (?=...), recording every lookahead
LookaheadInsert_Always(lookahead, lo, hi) == lookahead \cup (lo..hi)

\* parse4, (?=...): the range lo..hi is recorded in the lookahead ranges of the rule
\* unless a recorded range overlaps it
LookaheadInsert(lookahead, lo, hi) ==
  IF (lo..hi) \cap lookahead = {} THEN lookahead \cup (lo..hi) ELSE lookahead

\* the closing ) of a group, for a group that was not ended by its flag list
CloseGroup(c, ch) ==
  IF ch # 41
  THEN IF At(c, c.loc) = 41 THEN [c EXCEPT !.loc = @ + 1] ELSE Error(c, REGEX_SYNTAX, c.loc)
  ELSE c

parse4(begin, c0) ==
  LET c == Out(c0, {}, {}, TRUE, {}, 1)
      loc == c.loc
      ch == At(c, loc)
  IN  IF ch = 40
      THEN IF At(c, loc + 1) = 63
           THEN LET g == At(c, loc + 2)
                IN  CASE g = 35 ->
                           LET k == CommentEnd(c, loc + 3)
                           IN  IF At(c, k) = 41
                               THEN [c EXCEPT !.loc = k + 1]
                               ELSE CloseGroup([c EXCEPT !.loc = k], 0)
                      [] g = 94 ->
                           LET r == parse1(begin, [c EXCEPT !.loc = loc + 3])
                               r1 == [r EXCEPT !.followpos =
                                        FAdd(@, {p_pos(p) : p \in r.lastpos}, {set_accept(0, TRUE)})]
                           IN  CloseGroup(r1, g)
                      [] g = 61 ->
                           LET l_pos == loc
                               r == parse1(begin, [c EXCEPT !.loc = loc + 3])
                               tail == set_ticked(r.loc, TRUE)
                               lp1 == IF r.nullable THEN r.lastpos \cup {l_pos} ELSE r.lastpos
                               la == LookaheadInsert(r.lookahead, l_pos, r.loc)
                               f == FAdd(r.followpos, {p_pos(p) : p \in lp1}, {tail})
                               r1 == [r EXCEPT
                                        !.firstpos = @ \cup {l_pos} \cup (IF r.nullable THEN {tail} ELSE {}),
                                        !.lastpos = lp1 \cup {tail},
                                        !.lookahead = la,
                                        !.followpos = f]
                           IN  CloseGroup(r1, g)
                      [] g = 58 ->
                           CloseGroup(parse1(begin, [c EXCEPT !.loc = loc + 3]), g)
                      [] OTHER ->
                           LET m_loc == loc + 2
                               f == ModifierFlags([c EXCEPT !.loc = m_loc])
                               e == At(c, f.loc)
                               f1 == IF e # 0 THEN [f EXCEPT !.loc = @ + 1] ELSE f
                           IN  IF m_loc = 2 /\ e = 41
                               THEN CloseGroup(parse2(begin, f1), e)
                               ELSE LET r == ModifierScopes(parse1(begin, f1), m_loc)
                                        r1 == [r EXCEPT !.opt.i = c.opt.i, !.opt.q = c.opt.q,
                                                        !.opt.m = c.opt.m, !.opt.s = c.opt.s,
                                                        !.opt.x = c.opt.x]
                                    IN  CloseGroup(r1, ModifierStop(c, m_loc))
           ELSE CloseGroup(parse1(begin, [c EXCEPT !.loc = loc + 1]), ch)
      ELSE IF ch = 91
      THEN LET k == IF At(c, loc + 1) = 94 THEN loc + 2 ELSE loc + 1
               e == ListEnd(c, k, At(c, k))
               c1 == Out([c EXCEPT !.loc = e.loc], {loc}, {loc}, FALSE, {}, 1)
           IN  IF e.ch = 0 THEN Error(c1, REGEX_SYNTAX, e.loc) ELSE c1
      ELSE IF (ch = 34 /\ c.opt.q) \/ escape_at(c, loc) = 81
      THEN LET quoted == (ch = 34)
               q_loc == IF quoted THEN loc ELSE loc + 1
               c1 == [c EXCEPT !.loc = q_loc + 1]
               c2 == IF InQuote(c1, c1.loc, quoted)
                     THEN [QuoteBody(c1, NPOS, quoted) EXCEPT !.firstpos = {q_loc + 1}, !.nullable = FALSE]
                     ELSE c1
               c3 == [c2 EXCEPT !.modifiers = ModInsert(@, 113, q_loc, c2.loc)]
           IN  IF At(c3, c3.loc) # 0
               THEN LET k == IF quoted THEN c3.loc ELSE c3.loc + 1
                    IN  [c3 EXCEPT !.loc = IF At(c3, k) # 0 THEN k + 1 ELSE k]
               ELSE Error(c3, REGEX_SYNTAX, c3.loc)
      ELSE IF ch = 35 /\ c.opt.x
      THEN LET k == find_at(c, loc + 1, 10)
           IN  [c EXCEPT !.loc = IF k = -1 THEN Len(c.rex) ELSE k + 1]
      ELSE IF ch = 47 /\ c.opt.l /\ c.opt.x /\ At(c, loc + 1) = 42
      THEN LET ends == {k \in (loc + 2)..Len(c.rex) : At(c, k) = 42 /\ At(c, k + 1) = 47}
           IN  IF ends # {}
               THEN [c EXCEPT !.loc = SetMin(ends) + 2]
               ELSE Error([c EXCEPT !.loc = Len(c.rex)], REGEX_SYNTAX, Len(c.rex))
      ELSE IF IsSpace(ch) /\ c.opt.x
      THEN [c EXCEPT !.loc = loc + 1]
      ELSE IF ch # 0 /\ ch # 124 /\ ch # 41 /\ ch # 63 /\ ch # 42 /\ ch # 43
      THEN LET c1 == IF begin /\ (ch = 36 \/ escapes_at(c, loc, {65, 90, 66, 98, 60, 62, 105, 106}) # 0)
                     THEN Error(c, REGEX_SYNTAX, loc + 1) ELSE c
           IN  parse_esc(Out(c1, {loc}, {loc}, FALSE, {}, 1))
      ELSE IF ~ begin \/ ch # 0
      THEN Error(c, REGEX_SYNTAX, loc)
      ELSE c

\* parse3, {n,m}: the digits of a bound, at most 7, from location k on
BoundEnd(c, k) == Skip(c, k, "digit", 7)

\* the number written by the digits at locations k .. e-1
RECURSIVE Decimal(_, _, _)
Decimal(c, k, e) == IF k >= e THEN 0 ELSE 10 * Decimal(c, k, e - 1) + (At(c, e - 1) - 48)

\* parse3, {n,m}: loc after a bound whose digits end before e (the loop stops on
\* the first non-digit, or at the seventh digit without stepping past it)
BoundLoc(c, k, e) == IF e - k = 7 THEN e - 1 ELSE e

\* the follow map that holds exactly the pairs <<key, position>> of P
FromPairs(P) == [k \in {x[1] : x \in P} |-> {x[2] : x \in {y \in P : y[1] = k}}]

\* parse3, {n,m}, without the concatenation of the clones
Replicate_NoStitch(c, b_pos, pfirstpos, n, m, unlimited, nullable1) ==
  LET iter == c.iter
      f0 == c.followpos
      keys == {k \in DOMAIN f0 : k >= b_pos}
      clones == UNION {{<<set_iter(k, ToIndex(iter * i)), set_iter(p, ToIndex(iter * i))>> :
                          p \in f0[k], i \in 1..(m - 1)} : k \in keys}
      lastpos == {set_iter(k, ToIndex(iter * i)) :
                    k \in c.lastpos, i \in (IF c.nullable THEN 0 ELSE n - 1)..(m - 1)}
  IN  [c EXCEPT !.followpos = FMerge(f0, FromPairs(clones)),
                !.lastpos = lastpos, !.iter = ToIndex(iter * m)]

\* parse3, {n,m}: the virtual replication of the sub-regex, m > 0
Replicate(c, b_pos, pfirstpos, n, m, unlimited, nullable1) ==
  LET iter == c.iter
      f0 == c.followpos
      keys == {k \in DOMAIN f0 : k >= b_pos}
      clones == UNION {{<<set_iter(k, ToIndex(iter * i)), set_iter(p, ToIndex(iter * i))>> :
                          p \in f0[k], i \in 1..(m - 1)} : k \in keys}
      stitch == {<<set_iter(p_pos(k), ToIndex(iter * i)), set_iter(j, ToIndex(iter * i + iter))>> :
                   k \in c.lastpos, j \in pfirstpos, i \in 0..(m - 2)}
      self == IF unlimited
              THEN {<<set_iter(p_pos(k), ToIndex(iter * m - iter)), set_iter(j, ToIndex(iter * m - iter))>> :
                      k \in c.lastpos, j \in pfirstpos}
              ELSE {}
      firstpos == IF nullable1
                  THEN c.firstpos \cup {set_iter(k, ToIndex(iter * i)) : k \in pfirstpos, i \in 1..(m - 1)}
                  ELSE c.firstpos
      lastpos == {set_iter(k, ToIndex(iter * i)) :
                    k \in c.lastpos, i \in (IF c.nullable THEN 0 ELSE n - 1)..(m - 1)}
  IN  [c EXCEPT !.followpos = FMerge(FMerge(FMerge(f0, FromPairs(clones)), FromPairs(stitch)),
                                     FromPairs(self)),
                !.firstpos = firstpos, !.lastpos = lastpos, !.iter = ToIndex(iter * m)]

\* parse3 whose quantifiers leave followpos as it is
Quantifier_NoClosure(c, ch) ==
  LET nullable == c.nullable \/ ch = 42 \/ ch = 63
      islazy == At(c, c.loc + 1) = 63
      lazypos == IF islazy THEN c.lazypos \cup {c.loc + 1} ELSE c.lazypos
      firstpos == IF islazy
                  THEN IF nullable THEN lazy2(lazypos, c.firstpos) ELSE c.firstpos
                  ELSE greedy(c.firstpos)
  IN  [c EXCEPT !.nullable = nullable, !.lazypos = lazypos,
                !.firstpos = IF ch = 43 /\ ~ nullable /\ lazypos # {}
                             THEN firstpos \cup lazy3(lazypos, firstpos) ELSE firstpos,
                !.loc = IF islazy THEN c.loc + 2 ELSE c.loc + 1]

\* parse3: the quantifiers * + ? with the optional lazy ?
Quantifier(c, ch) ==
  LET nullable == c.nullable \/ ch = 42 \/ ch = 63
      islazy == At(c, c.loc + 1) = 63
      lazypos == IF islazy THEN c.lazypos \cup {c.loc + 1} ELSE c.lazypos
      firstpos == IF islazy
                  THEN IF nullable THEN lazy2(lazypos, c.firstpos) ELSE c.firstpos
                  ELSE greedy(c.firstpos)
      c1 == [c EXCEPT !.nullable = nullable, !.lazypos = lazypos, !.firstpos = firstpos,
                      !.loc = IF islazy THEN c.loc + 2 ELSE c.loc + 1]
      keys == {p_pos(p) : p \in c.lastpos}
  IN  IF ch = 43 /\ ~ nullable /\ lazypos # {}
      THEN LET firstpos1 == lazy3(lazypos, firstpos)
           IN  [c1 EXCEPT !.followpos = FAdd(@, keys, firstpos1), !.firstpos = @ \cup firstpos1]
      ELSE IF ch = 42 \/ ch = 43
      THEN [c1 EXCEPT !.followpos = FAdd(@, keys, firstpos)]
      ELSE c1

\* parse3, {n,m}: the bounds read from the { at c.loc. The result holds n, m, whether
\* the upper bound is missing after a comma, and the context at the location after them
RepeatBounds(c) ==
  LET l0 == c.loc
      e1 == BoundEnd(c, l0 + 1)
      k == Decimal(c, l0 + 1, e1)
      l1 == BoundLoc(c, l0 + 1, e1)
      c1 == IF k > IMAX THEN Error([c EXCEPT !.loc = l1], REGEX_RANGE, l1) ELSE [c EXCEPT !.loc = l1]
      n == ToIndex(k)
      comma == At(c, l1) = 44
      hasmax == comma /\ IsDigit(At(c, l1 + 1))
      e2 == BoundEnd(c, l1 + 1)
      m == IF hasmax THEN ToIndex(Decimal(c, l1 + 1, e2)) ELSE n
      l2 == IF hasmax THEN BoundLoc(c, l1 + 1, e2) ELSE IF comma THEN l1 + 1 ELSE l1
  IN  [n |-> n, m |-> m, unlimited |-> comma /\ ~ hasmax, c |-> [c1 EXCEPT !.loc = l2]]

\* parse3, {n,m}: the repeat with the bounds b applied to the sub-regex of context c
RepeatBody(c, b, b_pos) ==
  LET n == b.n
      m == b.m
      unlimited == b.unlimited
      c2 == b.c
      l2 == c2.loc
  IN  IF At(c, l2) = 125
      THEN LET nullable1 == c.nullable
               nullable == c.nullable \/ n = 0
               c3 == IF n > m THEN Error(c2, REGEX_RANGE, l2) ELSE c2
               islazy == At(c, l2 + 1) = 63
               lazypos == IF islazy THEN c.lazypos \cup {l2 + 1} ELSE c.lazypos
               firstpos == IF islazy
                           THEN IF nullable THEN lazy2(lazypos, c.firstpos) ELSE c.firstpos
                           ELSE IF n < m /\ lazypos = {} THEN greedy(c.firstpos) ELSE c.firstpos
               Follow(c4, pfirstpos) ==
                 IF nullable /\ unlimited
                 THEN [c4 EXCEPT !.followpos = FAdd(@, {p_pos(p) : p \in c.lastpos}, pfirstpos)]
                 ELSE IF m > 0
                 THEN Replicate(IF c.iter * m >= IMAX THEN Error(c4, REGEX_RANGE, c4.loc) ELSE c4,
                                b_pos, pfirstpos, n, m, unlimited, nullable1)
                 ELSE [c4 EXCEPT !.firstpos = {}, !.lastpos = {}, !.lazypos = {}]
           IN  Follow([c3 EXCEPT !.nullable = nullable, !.lazypos = lazypos, !.firstpos = firstpos,
                                 !.loc = IF islazy THEN l2 + 2 ELSE l2 + 1],
                      IF ~ nullable /\ lazypos # {} THEN lazy3(lazypos, firstpos) ELSE firstpos)
      ELSE Error(c2, REGEX_SYNTAX, l2)

\* parse3: the repeat {n,m}; c.loc is at the {
Repeat(c, b_pos) == RepeatBody(c, RepeatBounds(c), b_pos)

\* parse3: the white space skipped after parse4 in free space mode
SkipSpaces(r) ==
  [r EXCEPT !.loc = IF r.opt.x THEN Skip(r, r.loc, "space", Len(r.rex) + 1) ELSE r.loc]

\* parse3: the postfix operator at c.loc of the sub-regex that begins at b_pos
Postfix(c, b_pos) ==
  LET loc == c.loc
      ch == At(c, loc)
  IN  IF ch = 42 \/ ch = 43 \/ ch = 63
      THEN Quantifier(c, ch)
      ELSE IF ch = 123
      THEN Repeat(c, b_pos)
      ELSE IF ch = 125
      THEN [Error(c, REGEX_SYNTAX, loc) EXCEPT !.loc = loc + 1]
      ELSE c

parse3(begin, c0) == Postfix(SkipSpaces(parse4(begin, c0)), c0.loc)

\* parse2: the anchors at the begin of a concatenation; a is a_pos
RECURSIVE BeginAnchors(_, _, _)
BeginAnchors(c, a, begin) ==
  LET loc == IF c.opt.x THEN Skip(c, c.loc, "space", Len(c.rex) + 1) ELSE c.loc
      c1 == [c EXCEPT !.loc = loc]
  IN  IF At(c, loc) = 94
      THEN BeginAnchors([c EXCEPT !.loc = loc + 1], a \cup {loc}, begin)
      ELSE IF escapes_at(c, loc, {65, 66, 98, 60, 62}) # 0
      THEN BeginAnchors([c EXCEPT !.loc = loc + 2], a \cup {loc}, begin)
      ELSE [c |-> c1, a_pos |-> a,
            begin |-> IF escapes_at(c, loc, {105, 106}) # 0 THEN FALSE ELSE begin]

\* parse2: the loop that splices the anchors of a_pos in, in ascending order
RECURSIVE SpliceAnchors(_, _)
SpliceAnchors(c, a_pos) ==
  IF a_pos = {} THEN c
  ELSE LET p == SetMin(a_pos)
           heads == {k \in c.lastpos :
                       /\ At(c, p_loc(k)) = 41 \/ (c.opt.l /\ At(c, p_loc(k)) = 47)
                       /\ p_loc(k) \in c.lookahead}
           f1 == IF heads # {} THEN FAdd(c.followpos, {p_pos(p)}, heads) ELSE c.followpos
           prs == {<<p_pos(k), set_anchor(p, ~ c.nullable \/ p_pos(k) # p_pos(p))>> : k \in c.lastpos}
           c1 == [c EXCEPT !.followpos = FMerge(f1, FromPairs(prs)),
                           !.lastpos = {p},
                           !.firstpos = IF c.nullable THEN @ \cup {p} ELSE @,
                           !.nullable = FALSE]
       IN  SpliceAnchors(c1, a_pos \ {p})

\* parse2: the concatenation loop; c holds firstpos, lastpos, nullable, lazypos, iter
\* of the concatenation so far, l_pos is the lookahead position or NPOS
parse2_loop(c, l_pos, a_pos) ==
  LET ch == At(c, c.loc)
  IN  IF ch # 0 /\ ch # 124 /\ ch # 41
      THEN LET look == ch = 47 /\ l_pos = NPOS /\ c.opt.l /\ (~ c.opt.x \/ At(c, c.loc + 1) # 42)
               l_pos1 == IF look THEN c.loc ELSE l_pos
               Lazy(fp1) == IF c.lazypos # {} THEN fp1 \cup lazy3(c.lazypos, fp1) ELSE fp1
               Concat(r, firstpos1) ==
                 [r EXCEPT
                    !.firstpos = IF c.nullable THEN c.firstpos \cup firstpos1 ELSE c.firstpos,
                    !.followpos = FAdd(@, {p_pos(p) : p \in c.lastpos}, firstpos1),
                    !.lastpos = IF r.nullable THEN c.lastpos \cup r.lastpos ELSE r.lastpos,
                    !.nullable = IF r.nullable THEN c.nullable ELSE FALSE,
                    !.lazypos = c.lazypos \cup r.lazypos,
                    !.iter = IF r.iter > c.iter THEN r.iter ELSE c.iter]
               Factor(r) ==
                 Concat(r, Lazy(IF ch = 47 /\ l_pos1 # NPOS THEN r.firstpos \cup {l_pos1}
                                ELSE r.firstpos))
           IN  parse2_loop(Factor(parse3(FALSE, IF look THEN [c EXCEPT !.loc = @ + 1] ELSE c)),
                           l_pos1, a_pos)
      ELSE LET Tick(c1) ==
                 IF l_pos # NPOS
                 THEN [c1 EXCEPT
                         !.followpos = FAdd(@, {p_pos(p) : p \in c1.lastpos}, {set_ticked(l_pos, TRUE)}),
                         !.lastpos = @ \cup {set_ticked(l_pos, TRUE)},
                         !.lookahead = @ \cup {p_loc(l_pos)}]
                 ELSE c1
           IN  Tick(SpliceAnchors(c, a_pos))

parse2(begin, c0) ==
  LET b == IF begin THEN BeginAnchors(c0, {}, begin) ELSE [c |-> c0, a_pos |-> {}, begin |-> begin]
  IN  parse2_loop(parse3(b.begin, b.c), NPOS, b.a_pos)

\* parse1: the loop over the alternatives after the first
parse1_loop(begin, c) ==
  IF At(c, c.loc) = 124
  THEN LET Join(r) ==
             [r EXCEPT !.firstpos = c.firstpos \cup r.firstpos,
                       !.lastpos = c.lastpos \cup r.lastpos,
                       !.lazypos = c.lazypos \cup r.lazypos,
                       !.nullable = c.nullable \/ r.nullable,
                       !.iter = IF r.iter > c.iter THEN r.iter ELSE c.iter]
       IN  parse1_loop(begin, Join(parse2(begin, [c EXCEPT !.loc = @ + 1])))
  ELSE c

parse1(begin, c0) == parse1_loop(begin, parse2(begin, c0))

\* the accepting position of a rule, lazy for every lazy quantifier of lazypos
AcceptPositions(choice, lazypos) ==
  IF lazypos = {} THEN {set_accept(choice, TRUE)}
  ELSE {set_lazy(set_accept(choice, TRUE), p_loc(p)) : p \in lazypos}

\* parse: the do-while loop over the top-level alternatives; t holds end_, startpos,
\* the lookahead map and the parse context c
RECURSIVE parse_loop(_, _)
parse_loop(t, choice) ==
  LET Rule(r, acc) ==
        [end_ |-> Append(t.end_, r.loc),
         startpos |-> t.startpos \cup r.firstpos \cup (IF r.nullable THEN acc ELSE {}),
         lookahead |-> Append(t.lookahead, r.lookahead),
         c |-> [r EXCEPT !.followpos = FAdd(@, {p_pos(p) : p \in r.lastpos}, acc),
                         !.loc = r.loc + 1]]
      Again(t1) == IF At(t1.c, t1.c.loc - 1) = 124 THEN parse_loop(t1, ToIndex(choice + 1)) ELSE t1
      Alternative(r) == Again(Rule(r, AcceptPositions(choice, r.lazypos)))
  IN  Alternative(parse2(TRUE, [t.c EXCEPT !.lookahead = {}]))

ParseContext(regex, o) ==
  [rex |-> regex, opt |-> o, loc |-> 0, followpos |-> EmptyFollow,
   modifiers |-> [k \in {} |-> {}], lookahead |-> {},
   errs |-> <<>>, shown |-> <<>>, thrown |-> "none",
   firstpos |-> {}, lastpos |-> {}, nullable |-> TRUE, lazypos |-> {}, iter |-> 1]

parse(regex, o) ==
  parse_loop([end_ |-> <<>>, startpos |-> {}, lookahead |-> <<>>, c |-> ParseContext(regex, o)], 1)

---------------------------------------------------------------------------
(* Character sets *)

posix_class ==
  << <<65, 83, 67, 73, 73>>,
     <<83, 112, 97, 99, 101>>,
     <<88, 100, 105, 103, 105, 116>>,
     <<67, 110, 116, 114, 108>>,
     <<80, 114, 105, 110, 116>>,
     <<65, 108, 110, 117, 109>>,
     <<65, 108, 112, 104, 97>>,
     <<66, 108, 97, 110, 107>>,
     <<68, 105, 103, 105, 116>>,
     <<71, 114, 97, 112, 104>>,
     <<76, 111, 119, 101, 114>>,
     <<80, 117, 110, 99, 116>>,
     <<85, 112, 112, 101, 114>>,
     <<87, 111, 114, 100>> >>

\* posix(index, chars): the characters added
posix(index) ==
  CASE index = 0 -> 0..127
    [] index = 1 -> (9..13) \cup {32, 133}
    [] index = 2 -> (48..57) \cup (65..70) \cup (97..102)
    [] index = 3 -> (0..31) \cup {127}
    [] index = 4 -> 32..126
    [] index = 5 -> (48..57) \cup (65..90) \cup (97..122)
    [] index = 6 -> (65..90) \cup (97..122)
    [] index = 7 -> {9, 32}
    [] index = 8 -> 48..57
    [] index = 9 -> 33..126
    [] index = 10 -> 97..122
    [] index = 11 -> (33..47) \cup (58..64) \cup (91..96) \cup (123..126)
    [] index = 12 -> 65..90
    [] index = 13 -> (48..57) \cup (65..90) \cup (97..122) \cup {95}
    [] OTHER -> {}

\* flip(chars)
flip(chars) == Bytes \ chars

\* value of a digit character in a base up to 16, or -1
DigitValue(ch, base) ==
  LET v == IF IsDigit(ch) THEN ch - 48
           ELSE IF ch \in 65..70 THEN ch - 55
           ELSE IF ch \in 97..102 THEN ch - 87
           ELSE 16
  IN  IF v < base THEN v ELSE -1

\* the largest value the model keeps of a number that is above every byte
CharCap == 4095

\* strtoul(s, NULL, base) of the text of the regex from location k, at most max
\* characters of it: the value of the longest prefix of digits, capped at CharCap
RECURSIVE StrtoulFrom(_, _, _, _, _)
StrtoulFrom(c, k, max, base, v) ==
  IF max > 0 /\ DigitValue(At(c, k), base) >= 0
  THEN LET v1 == v * base + DigitValue(At(c, k), base)
       IN  StrtoulFrom(c, k + 1, max - 1, base, IF v1 > CharCap THEN CharCap ELSE v1)
  ELSE v

\* index of the first class name that the text at location k begins with, dropping
\* the first `drop` letters of the name; 14 if there is none
PosixIndex(c, k, drop) ==
  LET hits == {i \in 1..14 : eq_at(c, k, SubSeq(posix_class[i], 1 + drop, Len(posix_class[i])))}
  IN  IF hits = {} THEN 14 ELSE SetMin(hits) - 1

\* compile_esc(loc, chars): x is a context with the field chars; the result has the
\* field ret, the character returned
compile_esc(x, loc) ==
  LET ch == At(x, loc)
      abtnvfr == <<97, 98, 116, 110, 118, 102, 114, 0>>
      escapes == <<95, 95, 115, 83, 120, 88, 95, 95, 95, 95, 95, 95, 95, 95, 104, 72, 100, 68,
                   95, 95, 108, 76, 95, 95, 117, 85, 119, 87, 0>>
      First(s) == SetMin({k \in 1..Len(s) : s[k] = ch}) - 1
      Plain(v, extra) ==
        [ret |-> v] @@ [x EXCEPT !.chars = @ \cup extra \cup (IF v <= 255 THEN {v} ELSE {})]
  IN  IF ch = 48
      THEN Plain(StrtoulFrom(x, loc + 1, 3, 8, 0), {})
      ELSE IF (ch = 120 \/ ch = 117) /\ At(x, loc + 1) = 123
      THEN Plain(StrtoulFrom(x, 2, Len(x.rex), 16, 0), {})
      ELSE IF ch = 120 /\ IsXDigit(At(x, loc + 1))
      THEN Plain(StrtoulFrom(x, loc + 1, 2, 16, 0), {})
      ELSE IF ch = 99
      THEN Plain(At(x, loc + 1) % 32, {})
      ELSE IF ch = 101
      THEN Plain(27, {})
      ELSE IF ch = 95
      THEN Plain(ch, posix(6))
      ELSE IF ch = 112 /\ At(x, loc + 1) = 123
      THEN LET i == PosixIndex(x, loc + 2, 0)
           IN  [ret |-> META_EOL] @@
               (IF i < 14 THEN [x EXCEPT !.chars = @ \cup posix(i)] ELSE Error(x, REGEX_SYNTAX, loc))
      ELSE IF \E k \in 1..Len(abtnvfr) : abtnvfr[k] = ch
      THEN Plain(First(abtnvfr) + 7, {})
      ELSE IF \E k \in 1..Len(escapes) : escapes[k] = ch
      THEN LET s == First(escapes)
               set == x.chars \cup posix(s \div 2)
           IN  [ret |-> META_EOL] @@ [x EXCEPT !.chars = IF s % 2 = 1 THEN flip(set) ELSE set]
      ELSE Plain(ch, {})

\* the characters of a letter c and, under case insensitivity, of its other case
CaseChars(ch, icase) == IF IsAlpha(ch) /\ icase THEN {ToUpper(ch), ToLower(ch)} ELSE {ch}

\* compile_list: the item of the list at x.loc, a class [:name:], an escape or a
\* character; the result has the field ret, the character read, and loc at its end
ListItem(x) ==
  LET loc == x.loc
      ch == At(x, loc)
      c_loc == find_at(x, loc + 2, 58)
  IN  IF ch = 91 /\ At(x, loc + 1) = 58 /\ c_loc # -1 /\ At(x, c_loc + 1) = 93
      THEN IF c_loc = loc + 3
           THEN [compile_esc(x, loc + 2) EXCEPT !.loc = c_loc + 1]
           ELSE LET i == PosixIndex(x, loc + 3, 1)
                IN  [ret |-> META_EOL] @@
                    [(IF i < 14 THEN [x EXCEPT !.chars = @ \cup posix(i)]
                      ELSE Error(x, REGEX_SYNTAX, loc))
                     EXCEPT !.loc = c_loc + 1]
      ELSE IF ch = x.opt.e /\ x.opt.e # 0 /\ ~ x.opt.b
      THEN [parse_esc(compile_esc(x, loc + 1)) EXCEPT !.loc = @ - 1]
      ELSE [ret |-> ch] @@ x

\* compile_list: the characters added for the item read into x1.ret, the end of the
\* range lo-ret when lo is a character
ListAdd(x1, lo) ==
  LET c1 == x1.ret
      icase == x1.opt.i \/ is_modified(105, x1.modifiers, x1.loc)
  IN  IF ~ is_meta(c1)
      THEN IF ~ is_meta(lo)
           THEN LET Fold(x3) ==
                      IF icase
                      THEN [x3 EXCEPT !.chars = @ \cup
                              {ToLower(a) : a \in {b \in lo..c1 : IsUpper(b)}} \cup
                              {ToUpper(a) : a \in {b \in lo..c1 : IsLower(b)}}]
                      ELSE x3
                IN  Fold(IF lo <= c1 THEN [x1 EXCEPT !.chars = @ \cup (lo..c1)]
                         ELSE Error(x1, REGEX_LIST, x1.loc))
           ELSE [x1 EXCEPT !.chars = @ \cup CaseChars(c1, icase)]
      ELSE x1

\* compile_list: the for loop; x is a context with the fields chars and loc
RECURSIVE ListLoop(_, _, _)
ListLoop(x, prev, lo) ==
  LET loc == x.loc
      ch == At(x, loc)
  IN  IF ch # 0 /\ (ch # 93 \/ prev = META_BOL)
      THEN IF ch = 45 /\ ~ is_meta(prev) /\ is_meta(lo)
           THEN ListLoop([x EXCEPT !.loc = loc + 1], prev, prev)
           ELSE LET Rest(x1) ==
                      ListLoop([ListAdd(x1, lo) EXCEPT !.loc = @ + 1],
                               IF ~ is_meta(x1.ret) /\ ~ is_meta(lo) THEN META_EOL ELSE x1.ret,
                               META_EOL)
                IN  Rest(ListItem(x))
      ELSE [x EXCEPT !.chars = IF ~ is_meta(lo) THEN @ \cup {45} ELSE @]

\* compile_list(loc, chars, modifiers): x.chars is the set, x.loc the cursor
compile_list(x, loc) ==
  LET complement == At(x, loc) = 94
      r == ListLoop([x EXCEPT !.loc = IF complement THEN loc + 1 ELSE loc], META_BOL, META_EOL)
  IN  IF complement THEN [r EXCEPT !.chars = flip(@)] ELSE r

\* compile_transition: the characters matched by position k at location loc, in a
\* context x (rex, opt, modifiers, errs, shown, thrown); the result has the field chars
PositionChars(x0, k, literal) ==
  LET loc == p_loc(k)
      ch == At(x0, loc)
      x == [chars |-> {}, loc |-> loc, ret |-> 0] @@ x0
      Set(S) == [x EXCEPT !.chars = S]
      esc == escape_at(x, loc)
  IN  IF literal THEN Set({ch})
      ELSE IF ch = 46
      THEN IF x.opt.s \/ is_modified(115, x.modifiers, loc) THEN Set(0..255)
           ELSE Set((0..9) \cup (11..255))
      ELSE IF ch = 94
      THEN Set({IF x.opt.m \/ is_modified(109, x.modifiers, loc) THEN META_BOL ELSE META_BOB})
      ELSE IF ch = 36
      THEN Set({IF x.opt.m \/ is_modified(109, x.modifiers, loc) THEN META_EOL ELSE META_EOB})
      ELSE IF ch = 91 /\ escapes_at(x, loc, {65, 90, 66, 98, 60, 62, 105, 106}) = 0
      THEN compile_list(x, loc + 1)
      ELSE CASE esc = 105 -> Set({META_IND})
             [] esc = 106 -> Set({META_DED})
             [] esc = 65 -> Set({META_BOB})
             [] esc = 90 -> Set({META_EOB})
             [] esc = 66 -> Set({IF p_anchor(k) THEN META_NWB ELSE META_NWE})
             [] esc = 98 -> Set(IF p_anchor(k) THEN {META_BWB, META_EWB} ELSE {META_BWE, META_EWE})
             [] esc = 60 -> Set({IF p_anchor(k) THEN META_BWB ELSE META_BWE})
             [] esc = 62 -> Set({IF p_anchor(k) THEN META_EWB ELSE META_EWE})
             [] esc = 0 -> Set(CaseChars(ch, x.opt.i \/ is_modified(105, x.modifiers, loc)))
             [] OTHER -> compile_esc(x, loc + 1)

---------------------------------------------------------------------------
(* Moves *)

RemoveAt(s, i) == SubSeq(s, 1, i - 1) \o SubSeq(s, i + 1, Len(s))

\* transition without the merge: the move is appended as it is
transition_NoMerge(moves, chars, follow) == Append(moves, [chars |-> chars, follow |-> follow])

\* transition taking the characters away from the moves it meets and adding them
\* as one move with follow alone
transition_Replace(moves, chars, follow) ==
  LET cut == [i \in DOMAIN moves |-> [moves[i] EXCEPT !.chars = @ \ chars]]
      IsLeft(mv) == mv.chars # {}
      left == SelectSeq(cut, IsLeft)
  IN  IF chars # {} THEN Append(left, [chars |-> chars, follow |-> follow]) ELSE left

\* transition leaving the moves it meets as they are: only the characters no move
\* has yet are added, with follow
transition_RestOnly(moves, chars, follow) ==
  LET rest == chars \ UNION {moves[i].chars : i \in DOMAIN moves}
  IN  IF rest # {} THEN Append(moves, [chars |-> rest, follow |-> follow]) ELSE moves

\* transition: the while loop over the list of moves, i the iterator
RECURSIVE TransitionLoop(_, _, _, _, _)
TransitionLoop(moves, i, rest, chars, follow) ==
  IF i > Len(moves)
  THEN IF rest # {} THEN Append(moves, [chars |-> rest, follow |-> follow]) ELSE moves
  ELSE LET mv == moves[i]
           common == chars \cap mv.chars
       IN  IF mv.follow = follow
           THEN TransitionLoop(RemoveAt(moves, i), i, rest \cup mv.chars, chars, follow)
           ELSE IF common # {}
           THEN IF follow \subseteq mv.follow
                THEN TransitionLoop(moves, i + 1, rest \ common, chars, follow)
                ELSE IF mv.chars = common /\ mv.follow \subseteq follow
                THEN TransitionLoop(RemoveAt(moves, i), i, rest, chars, follow)
                ELSE IF mv.chars \ common # {}
                THEN TransitionLoop(
                       Append([moves EXCEPT ![i].chars = @ \ common],
                              [chars |-> common, follow |-> mv.follow \cup follow]),
                       i + 1, rest \ common, chars, follow)
                ELSE TransitionLoop(
                       [moves EXCEPT ![i] = [chars |-> common, follow |-> mv.follow \cup follow]],
                       i + 1, rest \ common, chars, follow)
           ELSE TransitionLoop(moves, i + 1, rest, chars, follow)

transition(moves, chars, follow) == TransitionLoop(moves, 1, chars, chars, follow)

---------------------------------------------------------------------------
(* DFA states *)

\* State(pos): target 0 is the null pointer; `next` is the order of the list
NewState(pos) ==
  [pos |-> pos, accept |-> 0, redo |-> FALSE, heads |-> {}, tails |-> {},
   edges |-> [k \in {} |-> <<0, 0>>], left |-> 0, right |-> 0, index |-> 0]

\* the ascending sequence of the elements of a finite set of numbers
RECURSIVE Sorted(_)
Sorted(S) == IF S = {} THEN <<>> ELSE <<SetMin(S)>> \o Sorted(S \ {SetMin(S)})

\* the lookahead indices of location loc: for every rule whose ranges hold loc, the
\* number of ranges of the rules before it plus the index of the range in the rule
RECURSIVE LookaheadIndices(_, _, _, _)
LookaheadIndices(lookahead, i, n, loc) ==
  IF i > Len(lookahead) THEN {}
  ELSE (IF loc \in lookahead[i] THEN {ToIndex(n + RangeIndex(lookahead[i], loc))} ELSE {})
       \cup LookaheadIndices(lookahead, i + 1, n + RangesSize(lookahead[i]), loc)

\* compile_transition memoizing the followpos of a lazy position k with the targets
\* that are lazy already left as they are
LazyFollow_KeepLazy(followpos, k) ==
  IF k \in DOMAIN followpos THEN followpos
  ELSE followpos @@ (k :> {IF p_ticked(p) \/ p_lazy(p) # 0 THEN p ELSE set_lazy(p, p_lazy(k)) :
                             p \in followpos[p_pos(k)]})

\* compile_transition, a lazy position k whose followpos exists: the follow map
\* with the memoized entry of k
LazyFollow(followpos, k) ==
  IF k \in DOMAIN followpos THEN followpos
  ELSE followpos @@ (k :> {IF p_ticked(p) THEN p ELSE set_lazy(p, p_lazy(k)) : p \in followpos[p_pos(k)]})

\* compile_transition picking the highest accept index
PickAccept_Highest(state_accept, accept) ==
  IF accept > state_accept THEN accept ELSE state_accept

\* compile_transition: the state's accept after the accepting position k
PickAccept(state_accept, accept) ==
  IF state_accept = 0 \/ accept < state_accept THEN accept ELSE state_accept

\* compile_transition: one iteration of the loop, for position k; a holds the fields
\* accept, redo, heads, tails of the state, the moves, and the context x
TransitionOf(a, k, lookahead) ==
  IF p_accept(k)
  THEN [a EXCEPT !.accept = PickAccept(@, p_accepts(k)),
                 !.redo = @ \/ p_accepts(k) = 0]
  ELSE LET x == a.x
           loc == p_loc(k)
           ch == At(x, loc)
           literal == is_modified(113, x.modifiers, loc)
           idx == LookaheadIndices(lookahead, 1, 0, loc)
       IN  IF ch = 47 /\ x.opt.l /\ ~ literal
           THEN IF ~ p_ticked(k) THEN [a EXCEPT !.heads = @ \cup idx]
                ELSE [a EXCEPT !.tails = @ \cup idx]
           ELSE IF ch = 40 /\ ~ literal
           THEN [a EXCEPT !.heads = @ \cup idx]
           ELSE IF ch = 41 /\ ~ literal
           THEN [a EXCEPT !.tails = @ \cup idx]
           ELSE IF p_pos(k) \notin DOMAIN x.followpos THEN a
           ELSE IF p_lazy(k) # 0 /\ p_greedy(k) THEN a
           ELSE LET f == IF p_lazy(k) # 0 THEN LazyFollow(x.followpos, k) ELSE x.followpos
                    follow == IF p_lazy(k) # 0 THEN f[k] ELSE f[p_pos(k)]
                    Move(y) ==
                      [a EXCEPT !.moves = transition(@, y.chars, follow),
                                !.x = [x EXCEPT !.followpos = f, !.errs = y.errs,
                                                !.shown = y.shown, !.thrown = y.thrown]]
                IN  Move(PositionChars([x EXCEPT !.followpos = f], k, literal))

RECURSIVE TransitionsOf(_, _, _)
TransitionsOf(a, ks, lookahead) ==
  IF ks = <<>> THEN a
  ELSE TransitionsOf(TransitionOf(a, Head(ks), lookahead), Tail(ks), lookahead)

\* compile_transition(state, followpos, modifiers, lookahead, moves)
compile_transition(state, x, lookahead) ==
  TransitionsOf([accept |-> state.accept, redo |-> state.redo, heads |-> state.heads,
                 tails |-> state.tails, moves |-> <<>>, x |-> x],
                Sorted(state.pos), lookahead)

\* compile without the binary search: every position set gets a new state
FindState_Never(sts, pos, t) == [found |-> 0, parent |-> Len(sts), branch |-> "right"]

\* compile: the binary search for the state of position set pos, from state t on.
\* The result is the state found, or the place of the null branch that ended the search.
RECURSIVE FindState(_, _, _)
FindState(sts, pos, t) ==
  IF PositionsLess(pos, sts[t].pos)
  THEN IF sts[t].left = 0 THEN [found |-> 0, parent |-> t, branch |-> "left"]
       ELSE FindState(sts, pos, sts[t].left)
  ELSE IF PositionsLess(sts[t].pos, pos)
  THEN IF sts[t].right = 0 THEN [found |-> 0, parent |-> t, branch |-> "right"]
       ELSE FindState(sts, pos, sts[t].right)
  ELSE [found |-> t, parent |-> 0, branch |-> "none"]

\* compile: the target state of pos, a new state appended to the list when none matches
TargetState(sts, pos) ==
  LET r == FindState(sts, pos, 1)
      new == Len(sts) + 1
  IN  IF r.found # 0 THEN [sts |-> sts, target |-> r.found]
      ELSE [sts |-> Append(IF r.branch = "left" THEN [sts EXCEPT ![r.parent].left = new]
                           ELSE [sts EXCEPT ![r.parent].right = new],
                           NewState(pos)),
            target |-> new]

\* compile: the edges of a state after the ranges of chars are set to lead to target
CommitEdges(edges, chars, target) ==
  [lo \in DOMAIN edges \cup RunLos(chars) |->
     IF lo \in RunLos(chars) THEN <<RunHi(chars, lo), target>> ELSE edges[lo]]

\* compile: eno_ += j->second - j->first over the ranges of chars
EdgeCount(chars) == Cardinality(chars)

\* compile: the loop over the moves of state s; d holds sts and eno
RECURSIVE CommitMoves(_, _, _)
CommitMoves(d, s, moves) ==
  IF moves = <<>> THEN d
  ELSE LET pos == trim_lazy(Head(moves).follow)
       IN  IF pos # {}
           THEN LET r == TargetState(d.sts, pos)
                IN  CommitMoves(
                      [sts |-> [r.sts EXCEPT ![s].edges = CommitEdges(@, Head(moves).chars, r.target)],
                       eno |-> d.eno + EdgeCount(Head(moves).chars)],
                      s, Tail(moves))
           ELSE CommitMoves(d, s, Tail(moves))

\* compile marking every rule as accepted
MarkAccept_All(acc, accept) == [k \in DOMAIN acc |-> TRUE]

\* compile: acc_ after the state with this accept
MarkAccept(acc, accept) ==
  IF accept > 0 /\ accept <= Len(acc) THEN [acc EXCEPT ![accept] = TRUE] ELSE acc

---------------------------------------------------------------------------
(* Compaction and encoding *)

\* the key after k in an edge map, or -1 at the end
NextKey(edges, k) ==
  IF \E j \in DOMAIN edges : j > k THEN SetMin({j \in DOMAIN edges : j > k}) ELSE -1

\* compact_dfa merging the later edges of the same target whether they are
\* adjacent to the edges passed or not
RECURSIVE CompactInner_Gap(_, _, _, _)
CompactInner_Gap(edges, i, j, hi) ==
  IF j # -1 /\ j <= 255
  THEN IF edges[j][2] = edges[i][2]
       THEN CompactInner_Gap([k \in DOMAIN edges \ {j} |->
                                IF k = i THEN <<edges[j][1], edges[i][2]>> ELSE edges[k]],
                             i, NextKey(edges, j), edges[j][1])
       ELSE CompactInner_Gap(edges, i, NextKey(edges, j), edges[j][1])
  ELSE edges

\* compact_dfa merging the edges it passes whatever their targets
RECURSIVE CompactInner_AnyTarget(_, _, _, _)
CompactInner_AnyTarget(edges, i, j, hi) ==
  IF j # -1 /\ j <= hi + 1
  THEN CompactInner_AnyTarget([k \in DOMAIN edges \ {j} |->
                                 IF k = i THEN <<edges[j][1], edges[i][2]>> ELSE edges[k]],
                              i, NextKey(edges, j), edges[j][1])
  ELSE edges

\* compact_dfa whose inner loop ends at the first edge it merges
RECURSIVE CompactInner_Once(_, _, _, _)
CompactInner_Once(edges, i, j, hi) ==
  IF j # -1 /\ j <= hi + 1
  THEN IF edges[j][2] = edges[i][2]
       THEN [k \in DOMAIN edges \ {j} |->
               IF k = i THEN <<edges[j][1], edges[i][2]>> ELSE edges[k]]
       ELSE CompactInner_Once(edges, i, NextKey(edges, j),
                              IF edges[j][1] > hi THEN edges[j][1] ELSE hi)
  ELSE edges

\* compact_dfa: the inner while loop, merging into edge i the edges from j on
RECURSIVE CompactInner(_, _, _, _)
CompactInner(edges, i, j, hi) ==
  IF j # -1 /\ j <= hi + 1
  THEN IF edges[j][2] = edges[i][2]
       THEN CompactInner([k \in DOMAIN edges \ {j} |->
                            IF k = i THEN <<edges[j][1], edges[i][2]>> ELSE edges[k]],
                         i, NextKey(edges, j), edges[j][1])
       ELSE CompactInner(edges, i, NextKey(edges, j), edges[j][1])
  ELSE edges

\* compact_dfa: the loop over the edges of one state, from edge i on
RECURSIVE CompactFrom(_, _)
CompactFrom(edges, i) ==
  IF i = -1 THEN edges
  ELSE IF edges[i][1] >= 255 THEN edges
  ELSE LET e == CompactInner(edges, i, NextKey(edges, i), edges[i][1])
       IN  CompactFrom(e, NextKey(e, i))

\* compact_dfa for the edges of one state
CompactEdges(edges) == CompactFrom(edges, NextKey(edges, -1))

compact_dfa(sts) == [s \in 1..Len(sts) |-> [sts[s] EXCEPT !.edges = CompactEdges(@)]]

\* encode_dfa looking only at whether an edge reaches 0xff
CoveredTo_Top(edges, k, hi) ==
  LET ends == {edges[lo][1] : lo \in {j \in DOMAIN edges : j <= 255}}
  IN  IF ends = {} THEN 0
      ELSE IF SetMax(ends) >= 255 THEN 256 ELSE SetMax(ends) + 1

\* encode_dfa, first loop: hi after the edges from key k on
RECURSIVE CoveredTo(_, _, _)
CoveredTo(edges, k, hi) ==
  IF k = -1 THEN hi
  ELSE CoveredTo(edges, NextKey(edges, k), IF k = hi THEN edges[k][1] + 1 ELSE hi)

\* encode_dfa counting one opcode for every edge, meta or not
EdgeOpcodes_OnePerEdge(edges) == Cardinality(DOMAIN edges)

\* encode_dfa, first loop: the opcodes counted for the edges present
EdgeOpcodes(edges) ==
  Cardinality(DOMAIN edges) +
  Cardinality({<<k, c>> \in (DOMAIN edges) \X (META_MIN..META_MAX) : is_meta(k) /\ k < c /\ c <= edges[k][1]})

\* encode_dfa, first loop, without the test nop_ < state->index
RECURSIVE CountOpcodes_NoCheck(_, _)
CountOpcodes_NoCheck(d, s) ==
  IF s > Len(d.sts) THEN d
  ELSE LET st == d.sts[s]
           hi == CoveredTo(st.edges, NextKey(st.edges, -1), 0)
           halt == hi <= 255
           edges == IF halt
                    THEN [k \in DOMAIN st.edges \cup {hi} |-> IF k = hi THEN <<255, 0>> ELSE st.edges[k]]
                    ELSE st.edges
           nop == ToIndex(ToIndex(d.nop + EdgeOpcodes(st.edges) + (IF halt THEN 1 ELSE 0))
                          + ToIndex(Cardinality(st.heads) + Cardinality(st.tails)
                                    + (IF st.accept > 0 \/ st.redo THEN 1 ELSE 0)))
       IN  CountOpcodes_NoCheck([sts |-> [d.sts EXCEPT ![s].index = d.nop, ![s].edges = edges],
                                 nop |-> nop, thrown |-> FALSE],
                                s + 1)

\* encode_dfa, first loop from state s on: d holds sts, nop and thrown
RECURSIVE CountOpcodes(_, _)
CountOpcodes(d, s) ==
  IF s > Len(d.sts) \/ d.thrown THEN d
  ELSE LET st == d.sts[s]
           hi == CoveredTo(st.edges, NextKey(st.edges, -1), 0)
           halt == hi <= 255
           edges == IF halt
                    THEN [k \in DOMAIN st.edges \cup {hi} |-> IF k = hi THEN <<255, 0>> ELSE st.edges[k]]
                    ELSE st.edges
           nop == ToIndex(ToIndex(d.nop + EdgeOpcodes(st.edges) + (IF halt THEN 1 ELSE 0))
                          + ToIndex(Cardinality(st.heads) + Cardinality(st.tails)
                                    + (IF st.accept > 0 \/ st.redo THEN 1 ELSE 0)))
       IN  CountOpcodes([sts |-> [d.sts EXCEPT ![s].index = d.nop, ![s].edges = edges],
                         nop |-> nop,
                         thrown |-> nop < d.nop],
                        s + 1)

\* the sequence of f(x) for the elements x of S in ascending / descending order
Ascending(S, f(_)) == LET q == Sorted(S) IN [i \in 1..Len(q) |-> f(q[i])]
Descending(S, f(_)) == LET q == Sorted(S) IN [i \in 1..Len(q) |-> f(q[Len(q) + 1 - i])]

RECURSIVE Flatten(_)
Flatten(ss) == IF ss = <<>> THEN <<>> ELSE Head(ss) \o Flatten(Tail(ss))

opcode_redo == <<"REDO">>
opcode_take(index) == <<"TAKE", index>>
opcode_tail(index) == <<"TAIL", index>>
opcode_head(index) == <<"HEAD", index>>
opcode_goto(lo, hi, index) == <<"GOTO", lo, hi, index>>

\* encode_dfa giving a null target the index 0 instead of IMAX
EdgeCode_NoHalt(sts, lo, e) ==
  LET target_index == IF e[2] # 0 THEN sts[e[2]].index ELSE 0
  IN  IF ~ is_meta(lo) THEN <<opcode_goto(lo, e[1], target_index)>>
      ELSE LET last == IF e[1] > lo THEN e[1] ELSE lo
               G(c) == opcode_goto(c, c, target_index)
           IN  Ascending(lo..last, G)

\* encode_dfa, second loop: the opcodes of one edge
EdgeCode(sts, lo, e) ==
  LET target_index == IF e[2] # 0 THEN sts[e[2]].index ELSE IMAX
  IN  IF ~ is_meta(lo) THEN <<opcode_goto(lo, e[1], target_index)>>
      ELSE LET last == IF e[1] > lo THEN e[1] ELSE lo
               G(c) == opcode_goto(c, c, target_index)
           IN  Ascending(lo..last, G)

\* encode_dfa emitting the edges in ascending order and the heads before the tails
StateCode_Ascending(sts, st) ==
  LET T(i) == opcode_tail(i)
      H(i) == opcode_head(i)
      E(lo) == EdgeCode(sts, lo, st.edges[lo])
  IN  (IF st.redo THEN <<opcode_redo>>
       ELSE IF st.accept > 0 THEN <<opcode_take(st.accept)>> ELSE <<>>)
      \o Ascending(st.heads, H) \o Ascending(st.tails, T)
      \o Flatten(Ascending(DOMAIN st.edges, E))

\* encode_dfa, second loop: the opcodes of one state
StateCode(sts, st) ==
  LET T(i) == opcode_tail(i)
      H(i) == opcode_head(i)
      E(lo) == EdgeCode(sts, lo, st.edges[lo])
  IN  (IF st.redo THEN <<opcode_redo>>
       ELSE IF st.accept > 0 THEN <<opcode_take(st.accept)>> ELSE <<>>)
      \o Ascending(st.tails, T) \o Ascending(st.heads, H)
      \o Flatten(Descending(DOMAIN st.edges, E))

\* encode_dfa, second loop over the states
EmitOpcodes(sts) ==
  LET C(s) == StateCode(sts, sts[s])
  IN  Flatten(Ascending(1..Len(sts), C))

\* encode_dfa
encode_dfa(sts) ==
  LET d == CountOpcodes([sts |-> sts, nop |-> 0, thrown |-> FALSE], 1)
  IN  [sts |-> d.sts, nop |-> d.nop, thrown |-> d.thrown,
       opc |-> IF d.thrown THEN <<>> ELSE EmitOpcodes(d.sts)]

\* delete_dfa: only the start state, which init owns, is left
delete_dfa(sts) == <<[sts[1] EXCEPT !.left = 0, !.right = 0]>>

HasSuffix(name, suffix) ==
  Len(name) > Len(suffix) /\ SubSeq(name, Len(name) - Len(suffix) + 1, Len(name)) = suffix

\* export_dfa writing no file
GraphFiles_None(o) == <<>>

\* export_dfa: the files written
GraphFiles(o) == SelectSeq(o.f, LAMBDA name : HasSuffix(name, <<46, 103, 118>>))

\* export_code: the files written
CodeFiles(o, nop) ==
  IF nop = 0 THEN <<>>
  ELSE SelectSeq(o.f, LAMBDA name :
         \/ HasSuffix(name, <<46, 104>>)
         \/ HasSuffix(name, <<46, 104, 112, 112>>)
         \/ HasSuffix(name, <<46, 99, 112, 112>>)
         \/ HasSuffix(name, <<46, 99, 99>>))

---------------------------------------------------------------------------
(* Inputs *)

Digit(d) == 48 + d

\* the decimal digits of a number
RECURSIVE Dec(_)
Dec(n) == IF n < 10 THEN <<Digit(n)>> ELSE Dec(n \div 10) \o <<Digit(n % 10)>>

\* all texts over a set of characters of length 0 .. n
RECURSIVE Texts(_, _)
Texts(chars, n) ==
  IF n = 0 THEN {<<>>}
  ELSE LET shorter == Texts(chars, n - 1)
       IN  shorter \cup {Append(s, ch) : s \in {u \in shorter : Len(u) = n - 1}, ch \in chars}

Alphabet == {Ord["a"], Ord["b"], Ord["|"], Ord["*"], Ord["?"], Ord["("], Ord[")"]}

\* largest bound written in the enumerated repeats a{n,m}
MaxRepeat == 3

RepeatPatterns ==
  {Str(<<"a", "{">>) \o Dec(n) \o Str(<<"}">>) : n \in 0..MaxRepeat}
  \cup {Str(<<"a", "{">>) \o Dec(n) \o Str(<<",", "}">>) : n \in 0..MaxRepeat}
  \cup {Str(<<"a", "{">>) \o Dec(n) \o Str(<<",">>) \o Dec(m) \o Str(<<"}">>) :
          n \in 0..MaxRepeat, m \in 0..MaxRepeat}

\* repeats whose written bounds are above the Index range, and one whose code
\* does not fit the Index range
OverflowPatterns ==
  {Str(<<"a", "{", "8", "0", "0", "0", "0", "0", "0", "}">>),
   Str(<<"a", "{">>) \o Dec(IMAX + 3) \o Str(<<"}">>),
   Str(<<"a", "{", "1", ",">>) \o Dec(IMAX + 3) \o Str(<<"}">>),
   Str(<<"a", "{">>) \o Dec(IMAX + 2) \o Str(<<",">>) \o Dec(IMAX + 3) \o Str(<<"}">>),
   Str(<<"a", "{">>) \o Dec(IMAX \div 2 + 1) \o Str(<<"}">>),
   Str(<<"[", "z", "-", "a", "]", "{">>) \o Dec(IMAX \div 2 + 1) \o Str(<<"}">>)}

OtherPatterns ==
  {Str(<<"[", "z", "-", "a", "]">>),
   Str(<<"[", "a", "-", "c", "]">>),
   Str(<<"[", "^", "a", "]", "b">>),
   Str(<<"(", "?", "^", "a", ")">>),
   Str(<<"(", "?", "^", "a", ")", "|", "a", "|", "b">>),
   Str(<<"(", "?", "^", "a", "b", ")", "|", "a", "b", "?">>),
   Str(<<"a", "|", "a", "b", "|", "b">>),
   Str(<<"(", "a", "|", "b", ")", "|", "c">>),
   Str(<<"(", "?", "i", ")", "a", "|", "b">>),
   Str(<<"(", "?", "i", ":", "a", ")", "b">>),
   Str(<<".", "a">>),
   Str(<<"^", "a", "$">>),
   Str(<<"a", "*", "?", "b">>),
   Str(<<"a", "+", "?", "b">>),
   Str(<<"(", "a", "|", "b", ")", "*", "?", "a">>),
   Str(<<"(", "?", "=", "a", ")", "b">>),
   Str(<<"a", "(", "?", "=", "b", ")">>),
   Str(<<"\\", "x", "4", "1">>),
   Str(<<"\\", "d", "+">>),
   Str(<<"(", "a", "{", "2", "}", ")", "{", "2", "}">>),
   Str(<<"a", "}">>),
   Str(<<"a", "{", "x">>),
   Str(<<"[", "a">>),
   Str(<<".", "|", "a">>),
   Str(<<"[", "a", "-", "c", "]", "|", "b">>),
   Str(<<"a", "$", "|", "a", "b", "|", "a", "c">>),
   Str(<<"\\", "b", "a">>),
   Str(<<"(", "a", "b", ")", "*">>),
   Str(<<"(", "a", "b", "|", "b", ")", "*", "a">>),
   Str(<<"[", "a", "c", "e", "]", "|", "[", "b", "d", "]">>),
   Str(<<"a", "[", "z", "-", "a", "]">>),
   Str(<<"(", "?", "=", "(", "?", "=", "a", ")", "b", ")">>),
   Str(<<"(", "?", "=", "a", "(", "?", "=", "b", ")", ")", "|", "c">>),
   Str(<<"(", "?", "=", "a", ")", "|", "(", "?", "=", "b", ")">>),
   Str(<<"(", "a", "|", "b", ")", "c", "|", "(", "a", "|", "b", ")", "d">>),
   Str(<<"(", "a", "*", "?", "b", ")", "+">>),
   Str(<<"(", "a", "|", "b", ")", "+", "a">>),
   Str(<<"(", "a", "*", "?", "b", ")", "+", "?", "c">>)}

\* an opcode table given to the constructor instead of a regex
GivenCode == <<opcode_take(1), opcode_goto(0, 255, IMAX)>>

OptionStrings == {Str(<<>>), Str(<<"r">>), Str(<<"w">>), Str(<<"w", "r">>)}

Inputs ==
  (Texts(Alphabet, MaxLen) \X {Str(<<>>), Str(<<"r">>)})
  \cup ((RepeatPatterns \cup OverflowPatterns \cup OtherPatterns) \X OptionStrings)
  \cup {<<Str(<<"a", "/", "b">>), Str(<<"l">>)>>,
        <<Str(<<"a", " ", "b", "#", "c">>), Str(<<"x">>)>>,
        <<Str(<<"\"", "a", "|", "\"", "b">>), Str(<<"q">>)>>,
        <<Str(<<"a", "|", "B">>), Str(<<"i">>)>>,
        <<Str(<<".", "|", "^", "a">>), Str(<<"s", "m">>)>>,
        <<Str(<<"[", "^", "a", "]", ".">>), Str(<<"s">>)>>,
        <<Str(<<"(", "?", "l", ":", "a", ")", "b", "/", "c">>), Str(<<>>)>>,
        <<Str(<<"a">>), Str(<<"e">>)>>,
        <<Str(<<"a">>), Str(<<"i", "e", "=">>)>>,
        <<Str(<<"a">>), Str(<<"e", "=", "E">>)>>,
        <<Str(<<"a">>), Str(<<"e", ";">>)>>,
        <<Str(<<"a">>), Str(<<"f">>)>>,
        <<Str(<<"a">>), Str(<<"f", "=">>)>>,
        <<Str(<<"a">>), Str(<<"r", "n">>)>>,
        <<Str(<<"a">>), Str(<<"n", "=">>)>>,
        <<Str(<<"[", "\\", "]", "]">>), Str(<<>>)>>,
        <<Str(<<"[", "\\", "]", "]">>), Str(<<"b">>)>>,
        <<Str(<<"[", "]", "a", "]">>), Str(<<>>)>>,
        <<Str(<<"[", "[", ":", "a", "l", "p", "h", "a", ":", "]", "]">>), Str(<<>>)>>,
        <<Str(<<"[", "a", "b", "]", "c", "|", "[", "b", "d", "]", "d">>), Str(<<>>)>>,
        <<Str(<<"[", "a", "c", "]", "|", "b", "d">>), Str(<<>>)>>,
        <<Str(<<"[", "a", "c", "e", "]", "|", "[", "b", "d", "]">>), Str(<<"f", "=", "b", ".", "g", "v">>)>>,
        <<Str(<<"\\", "x", "{", "4", "1", "}">>), Str(<<>>)>>,
        <<Str(<<"a", "b", "\\", "u", "{", "6", "3", "}">>), Str(<<>>)>>,
        <<Str(<<"a", "\\", "x", "{", "4", "2", "}">>), Str(<<"r">>)>>,
        <<Str(<<"(", "?", "s", "m", "x", "q", ":", "a", ")", "b">>), Str(<<>>)>>,
        <<Str(<<"(", "?", "^", "a", ")", "|", "a", "(", "?", "=", "b", ")">>), Str(<<>>)>>,
        <<Str(<<"a", "(", "?", "=", "b", ")", "|", "a", "b", "(", "?", "=", "c", ")">>), Str(<<>>)>>,
        <<Str(<<"a">>), Str(<<"f", "=", "a", ".", "g", "v", ",", "a", ".", "h", ";", "r">>)>>}

---------------------------------------------------------------------------
(* The compiler as a state machine *)

VARIABLES
  pc,         \* where Pattern::init is
  rex,        \* rex_, the regex
  optstr,     \* the option string given to init
  opt,        \* opt_
  end_,       \* end_, the end locations of the rules
  startpos,   \* startpos of init
  followpos,  \* followpos of init
  modifiers,  \* modifiers of init
  lookahead,  \* lookahead of init, a sequence indexed by rule
  states,     \* the traversal list of State objects; states[1] is start
  cur,        \* the state the loop of compile is at
  vno_,       \* vno_
  eno_,       \* eno_
  acc_,       \* acc_
  nop_,       \* nop_
  opc_,       \* opc_, the opcode array; <<>> while there is none
  errs,       \* the calls of Pattern::error so far: <<code, loc>>
  shown,      \* the errors displayed
  thrown,     \* the error thrown out of init, or "none"
  io          \* the files written so far: <<kind, name>>

vars == <<pc, rex, optstr, opt, end_, startpos, followpos, modifiers, lookahead, states, cur,
          vno_, eno_, acc_, nop_, opc_, errs, shown, thrown, io>>

Init ==
  /\ \/ \E in \in Inputs : rex = in[1] /\ optstr = in[2] /\ opc_ = <<>>
     \/ rex = <<>> /\ optstr = <<>> /\ opc_ = GivenCode
  /\ pc = "init"
  /\ opt = NoOptions
  /\ end_ = <<>>
  /\ startpos = {}
  /\ followpos = EmptyFollow
  /\ modifiers = [k \in {} |-> {}]
  /\ lookahead = <<>>
  /\ states = <<>>
  /\ cur = 0
  /\ vno_ = 0
  /\ eno_ = 0
  /\ acc_ = <<>>
  /\ nop_ = 0
  /\ errs = <<>>
  /\ shown = <<>>
  /\ thrown = "none"
  /\ io = <<>>

\* init of a pattern constructed with an opcode table
InitCode ==
  /\ pc = "init"
  /\ opc_ # <<>>
  /\ pc' = "given"
  /\ nop_' = 0
  /\ UNCHANGED <<rex, optstr, opt, end_, startpos, followpos, modifiers, lookahead, states, cur,
                 vno_, eno_, acc_, opc_, errs, shown, thrown, io>>

\* init: init_options and parse
Parse ==
  /\ pc = "init"
  /\ opc_ = <<>>
  /\ \E o \in InitOptions(optstr) : \E t \in {parse(rex, o)} :
       /\ opt' = t.c.opt
       /\ errs' = t.c.errs
       /\ shown' = t.c.shown
       /\ thrown' = t.c.thrown
       /\ IF t.c.thrown # "none"
          THEN /\ pc' = "error"
               /\ UNCHANGED <<end_, startpos, followpos, modifiers, lookahead>>
          ELSE /\ pc' = "parsed"
               /\ end_' = t.end_
               /\ startpos' = t.startpos
               /\ followpos' = t.c.followpos
               /\ modifiers' = t.c.modifiers
               /\ lookahead' = t.lookahead
  /\ UNCHANGED <<rex, optstr, states, cur, vno_, eno_, acc_, nop_, opc_, io>>

\* init: State start(startpos); compile up to its loop
CompileBegin ==
  /\ pc = "parsed"
  /\ pc' = "compile"
  /\ states' = <<NewState(trim_lazy(startpos))>>
  /\ cur' = 1
  /\ vno_' = 0
  /\ eno_' = 0
  /\ acc_' = [k \in 1..Len(end_) |-> FALSE]
  /\ UNCHANGED <<rex, optstr, opt, end_, startpos, followpos, modifiers, lookahead,
                 nop_, opc_, errs, shown, thrown, io>>

\* compile: one iteration of the loop over the states
CompileState ==
  /\ pc = "compile"
  /\ \E a \in {compile_transition(states[cur],
                                     [rex |-> rex, opt |-> opt, modifiers |-> modifiers,
                                      followpos |-> followpos, errs |-> errs, shown |-> shown,
                                      thrown |-> thrown],
                                     lookahead)} :
       /\ errs' = a.x.errs
       /\ shown' = a.x.shown
       /\ thrown' = a.x.thrown
       /\ IF a.x.thrown # "none"
          THEN /\ pc' = "error"
               /\ UNCHANGED <<states, cur, vno_, eno_, acc_, followpos>>
          ELSE \E d \in {CommitMoves([sts |-> [states EXCEPT ![cur].accept = a.accept,
                                                              ![cur].redo = a.redo,
                                                              ![cur].heads = a.heads,
                                                              ![cur].tails = a.tails],
                                       eno |-> eno_],
                                      cur, a.moves)} :
                 /\ states' = d.sts
                 /\ eno_' = d.eno
                 /\ followpos' = a.x.followpos
                 /\ acc_' = MarkAccept(acc_, a.accept)
                 /\ vno_' = vno_ + 1
                 /\ cur' = cur + 1
                 /\ pc' = IF cur + 1 > Len(d.sts) THEN "compiled" ELSE "compile"
  /\ UNCHANGED <<rex, optstr, opt, end_, startpos, modifiers, lookahead, nop_, opc_, io>>

\* assemble: export_dfa
ExportDfa ==
  /\ pc = "compiled"
  /\ pc' = "exported"
  /\ io' = io \o [k \in 1..Len(GraphFiles(opt)) |-> <<"graph", GraphFiles(opt)[k]>>]
  /\ UNCHANGED <<rex, optstr, opt, end_, startpos, followpos, modifiers, lookahead, states, cur,
                 vno_, eno_, acc_, nop_, opc_, errs, shown, thrown>>

\* assemble: compact_dfa
CompactDfa ==
  /\ pc = "exported"
  /\ pc' = "compacted"
  /\ states' = compact_dfa(states)
  /\ UNCHANGED <<rex, optstr, opt, end_, startpos, followpos, modifiers, lookahead, cur,
                 vno_, eno_, acc_, nop_, opc_, errs, shown, thrown, io>>

\* assemble: encode_dfa
EncodeDfa ==
  /\ pc = "compacted"
  /\ \E r \in {encode_dfa(states)} :
       \E x \in {IF r.thrown
                 THEN Error([opt |-> opt, errs |-> errs, shown |-> shown, thrown |-> thrown],
                            CODE_OVERFLOW, 0)
                 ELSE [opt |-> opt, errs |-> errs, shown |-> shown, thrown |-> thrown]} :
         /\ states' = r.sts
         /\ nop_' = r.nop
         /\ opc_' = IF x.thrown # "none" THEN <<>> ELSE r.opc
         /\ errs' = x.errs
         /\ shown' = x.shown
         /\ thrown' = x.thrown
         /\ pc' = IF x.thrown # "none" THEN "error" ELSE "encoded"
  /\ UNCHANGED <<rex, optstr, opt, end_, startpos, followpos, modifiers, lookahead, cur,
                 vno_, eno_, acc_, io>>

\* assemble: delete_dfa
DeleteDfa ==
  /\ pc = "encoded"
  /\ pc' = "deleted"
  /\ states' = delete_dfa(states)
  /\ UNCHANGED <<rex, optstr, opt, end_, startpos, followpos, modifiers, lookahead, cur,
                 vno_, eno_, acc_, nop_, opc_, errs, shown, thrown, io>>

\* assemble: export_code
ExportCode ==
  /\ pc = "deleted"
  /\ pc' = "done"
  /\ io' = io \o [k \in 1..Len(CodeFiles(opt, nop_)) |-> <<"code", CodeFiles(opt, nop_)[k]>>]
  /\ UNCHANGED <<rex, optstr, opt, end_, startpos, followpos, modifiers, lookahead, states, cur,
                 vno_, eno_, acc_, nop_, opc_, errs, shown, thrown>>

Next ==
  \/ InitCode
  \/ Parse
  \/ CompileBegin
  \/ CompileState
  \/ ExportDfa
  \/ CompactDfa
  \/ EncodeDfa
  \/ DeleteDfa
  \/ ExportCode

Spec == Init /\ [][Next]_vars

\* the values of pc
PcValues == {"init", "given", "parsed", "compile", "compiled", "exported", "compacted",
             "encoded", "deleted", "done", "error"}

\* init goes on: it has not returned or thrown, and pc or the state compile is at changes
Resume ==
  /\ pc \notin {"done", "error", "given"}
  /\ pc' \in PcValues
  /\ cur' \in 0..(cur + 1)

\* init runs to its end or to a throw: the thread that runs it is not halted for ever
\* while init can go on. The steps of init are the steps of Next, and fairness is
\* stated on pc and cur, which every step of Next changes (C30_Terminates checks it).
FairSpec == Init /\ [][Next]_vars /\ WF_<<pc, cur>>(Resume)


---------------------------------------------------------------------------
(* Observers *)

\* std::string::substr(pos, n) with n converted to size_t: a negative n takes the
\* rest of the string; pos beyond the end throws std::out_of_range
Substr(s, pos, n) ==
  IF pos > Len(s) THEN <<"out_of_range">>
  ELSE SubSeq(s, pos + 1, IF n < 0 \/ pos + n > Len(s) THEN Len(s) ELSE pos + n)

\* operator[](choice)
OperatorIndex(choice) ==
  IF choice = 0 THEN rex
  ELSE IF choice >= 1 /\ choice <= Len(end_)
  THEN LET loc == end_[choice]
           prev == IF choice >= 2 THEN end_[choice - 1] + 1 ELSE 0
       IN  Substr(rex, prev, loc - prev)
  ELSE <<>>

\* the target of the edge of state s that holds character ch, 0 when there is none
Step(sts, s, ch) ==
  IF s = 0 THEN 0
  ELSE LET E == {lo \in DOMAIN sts[s].edges : lo <= ch /\ ch <= sts[s].edges[lo][1]}
       IN  IF E = {} THEN 0 ELSE sts[s].edges[SetMax(E)][2]

\* the state the DFA is in after the word w from state s, 0 when it halts
RECURSIVE Run(_, _, _)
Run(sts, s, w) == IF w = <<>> THEN s ELSE Run(sts, Step(sts, s, Head(w)), Tail(w))

\* the rule the DFA accepts the whole word w with, 0 when it does not accept it
AcceptOf(sts, w) == LET s == Run(sts, 1, w) IN IF s = 0 THEN 0 ELSE sts[s].accept

\* the states reachable from the states R over edges
RECURSIVE ReachFrom(_, _)
ReachFrom(sts, R) ==
  LET N == R \cup (UNION {{sts[s].edges[lo][2] : lo \in DOMAIN sts[s].edges} : s \in R} \ {0})
  IN  IF N = R THEN R ELSE ReachFrom(sts, N)

\* the codes of the errors signalled so far
Signalled == {errs[k][1] : k \in DOMAIN errs}

\* the DFA exists as compile built it
Built == pc \in {"compiled", "exported"}

\* compile_transition has returned for state s
Compiled(s) ==
  /\ pc \in {"compile", "compiled", "exported", "compacted", "encoded"}
  /\ s \in DOMAIN states
  /\ s < cur

\* the accepts values of the accepting positions of state s
AcceptsOf(s) == {p_accepts(p) : p \in {q \in states[s].pos : p_accept(q)}}

\* the word of k letters a
Word(k) == [i \in 1..k |-> Ord["a"]]

RepeatNM(n, m) == Str(<<"a", "{">>) \o Dec(n) \o Str(<<",">>) \o Dec(m) \o Str(<<"}">>)
RepeatN(n) == Str(<<"a", "{">>) \o Dec(n) \o Str(<<",", "}">>)
RangePattern == Str(<<"a", "{", "8", "0", "0", "0", "0", "0", "0", "}">>)
ListPattern == Str(<<"[", "z", "-", "a", "]">>)

\* patterns with a lookahead inside a lookahead of the same rule, and the
\* locations from the ( to the ) of the inner lookahead
NestedFirst == Str(<<"(", "?", "=", "(", "?", "=", "a", ")", "b", ")">>)
NestedLast == Str(<<"(", "?", "=", "a", "(", "?", "=", "b", ")", ")", "|", "c">>)
InnerRange(regex) == IF regex = NestedFirst THEN 3..7 ELSE 4..8

---------------------------------------------------------------------------
(* Claims *)

\* C1: Pattern::error raises the error to the caller if and only if option r is
\* set or the code is CODE_OVERFLOW. Option w only displays the error. In every
\* other case error() returns and the compilation goes on: an error is thrown
\* exactly when the last call of error() was made with r or with CODE_OVERFLOW,
\* no earlier call was, the displayed errors are all the calls under w and none
\* without it, and init stops in its error state only with a thrown error.
C1_ErrorRaisedIffROrOverflow ==
  /\ thrown # "none" <=>
       (errs # <<>> /\ (opt.r \/ errs[Len(errs)][1] = CODE_OVERFLOW))
  /\ thrown # "none" => thrown = errs[Len(errs)][1]
  /\ \A k \in 1..(Len(errs) - 1) : ~ opt.r /\ errs[k][1] # CODE_OVERFLOW
  /\ shown = IF opt.w THEN [k \in DOMAIN errs |-> errs[k][1]] ELSE <<>>
  /\ pc = "error" <=> thrown # "none"

\* C1 witness: without r, errors were signalled and returned from, and then
\* CODE_OVERFLOW was thrown
C1_Witness ==
  /\ ~ opt.r
  /\ Len(errs) > 1
  /\ errs[1][1] = REGEX_LIST
  /\ thrown = CODE_OVERFLOW

\* C2 as stated: with the empty option string a pattern with a detected error
\* does not complete with an opcode table
C2_AsStated == (optstr = <<>> /\ errs # <<>>) => pc \notin {"encoded", "deleted", "done"}

\* C2 amended: with option r the compilation of a pattern with a detected error
\* ends in the first error detected and installs no opcode table, a{8000000}
\* in REGEX_RANGE and [z-a] in REGEX_LIST; with the empty option string the same
\* errors are signalled, error() returns, and the compilation of these two
\* patterns completes with an opcode table.
C2_ErrorEndsCompilationUnderR ==
  /\ (opt.r /\ errs # <<>>) =>
       /\ pc = "error"
       /\ Len(errs) = 1
       /\ thrown = errs[1][1]
       /\ opc_ = <<>>
  /\ (rex = RangePattern /\ pc # "init") => (errs # <<>> /\ errs[1][1] = REGEX_RANGE)
  /\ (rex = ListPattern /\ pc \in {"compiled", "error"}) =>
       (errs # <<>> /\ errs[1][1] = REGEX_LIST)
  /\ (optstr = <<>> /\ rex \in {RangePattern, ListPattern}) =>
       /\ pc # "error"
       /\ thrown = "none"
       /\ pc = "done" => (nop_ > 0 /\ Len(opc_) = nop_)

\* C2 witness: [z-a] under option r has ended in REGEX_LIST
C2_Witness ==
  /\ rex = ListPattern
  /\ opt.r
  /\ pc = "error"
  /\ thrown = REGEX_LIST

\* C3: at every point of compile no two states of the list have equal position
\* sets, and an iteration of compile wires every move whose trimmed position set
\* is the one of a state of the list (the start state included) to that state:
\* the list grows by exactly the position sets that were not in it, and every
\* edge of a move leads to the state of the move's trimmed position set.
C3_Step ==
  (pc = "compile" /\ pc' \in {"compile", "compiled"}) =>
    LET x == [rex |-> rex, opt |-> opt, modifiers |-> modifiers, followpos |-> followpos,
              errs |-> errs, shown |-> shown, thrown |-> thrown]
        moves == compile_transition(states[cur], x, lookahead).moves
        succ == {trim_lazy(moves[i].follow) : i \in DOMAIN moves} \ {{}}
        old == {states[i].pos : i \in DOMAIN states}
    IN  /\ Len(states') = Len(states) + Cardinality(succ \ old)
        /\ \A i \in DOMAIN states : states'[i].pos = states[i].pos
        /\ \A i \in DOMAIN moves :
             trim_lazy(moves[i].follow) # {} =>
               \A lo \in RunLos(moves[i].chars) :
                 /\ lo \in DOMAIN states'[cur].edges
                 /\ states'[cur].edges[lo][2] \in DOMAIN states'
                 /\ states'[states'[cur].edges[lo][2]].pos = trim_lazy(moves[i].follow)
        /\ \A i, j \in DOMAIN states' : states'[i].pos = states'[j].pos => i = j

C3_StateIdentity ==
  /\ [](\A i, j \in DOMAIN states : states[i].pos = states[j].pos => i = j)
  /\ [][C3_Step]_vars

\* C3 witness: the successor of a state made after the start state has the
\* position set of the start state, and its edge leads to the start state
C3_Witness ==
  /\ pc = "compiled"
  /\ \E s \in DOMAIN states : \E lo \in DOMAIN states[s].edges :
       s > 1 /\ states[s].edges[lo][2] = 1

\* the intervals of an edge map are well formed and pairwise disjoint, and none
\* spans bytes and meta characters
EdgesDisjoint(edges) ==
  \A lo \in DOMAIN edges :
    /\ lo <= edges[lo][1]
    /\ is_meta(lo) = is_meta(edges[lo][1])
    /\ \A lo2 \in DOMAIN edges : lo < lo2 => edges[lo][1] < lo2

\* C4: once compile has committed the edges of a state, and before compaction,
\* the edge intervals [lo,hi] of the state are pairwise disjoint over the bytes
\* 0..255 and no meta edge overlaps a byte edge.
C4_EdgesDisjoint ==
  pc \in {"compile", "compiled", "exported"} =>
    \A s \in DOMAIN states : EdgesDisjoint(states[s].edges)

\* C4 witness: a state built from positions with overlapping character sets has
\* several byte edges, and a state has byte edges and a meta edge
C4_Witness ==
  /\ pc = "compiled"
  /\ \/ /\ rex = Str(<<".", "|", "a">>)
        /\ Cardinality(DOMAIN states[1].edges) >= 3
     \/ \E s \in DOMAIN states : \E lo1, lo2, lo3 \in DOMAIN states[s].edges :
          lo1 < lo2 /\ ~ is_meta(lo2) /\ is_meta(lo3)

StateEnd(s) == IF s < Len(states) THEN states[s + 1].index ELSE nop_

\* C6: in the opcode array of encode_dfa every GOTO to a real state carries an
\* index below nop_ that is the index of the first opcode of that state, and
\* every edge with a null target carries the HALT sentinel IMAX: the opcodes of
\* state s are opc_[index(s) .. index(s+1)-1], every edge of s has its GOTO in
\* them with the index of its target, and no state has the index IMAX.
C6_OpcodeBounds ==
  /\ pc \in {"encoded", "deleted", "done"} =>
       /\ Len(opc_) = nop_
       /\ \A i \in DOMAIN opc_ :
            opc_[i][1] = "GOTO" => (opc_[i][4] = IMAX \/ opc_[i][4] < nop_)
  /\ pc = "encoded" =>
       /\ states[1].index = 0
       /\ \A s \in DOMAIN states :
            /\ states[s].index < StateEnd(s)
            /\ states[s].index < nop_
            /\ states[s].index # IMAX
            /\ \A i \in (states[s].index + 1)..StateEnd(s) :
                 opc_[i][1] # "GOTO" => i <= states[s].index + 1 + Cardinality(states[s].heads)
                                                + Cardinality(states[s].tails)
            /\ \A lo \in DOMAIN states[s].edges :
                 LET e == states[s].edges[lo]
                     want == IF e[2] = 0 THEN IMAX ELSE states[e[2]].index
                 IN  \A c \in (IF is_meta(lo) THEN lo..e[1] ELSE {lo}) :
                       \E i \in (states[s].index + 1)..StateEnd(s) :
                         opc_[i] = <<"GOTO", c, IF is_meta(lo) THEN c ELSE e[1], want>>
       /\ \A i \in DOMAIN opc_ :
            opc_[i][1] = "GOTO" =>
              (opc_[i][4] = IMAX \/ \E s \in DOMAIN states : states[s].index = opc_[i][4])

\* C6 witness: an opcode array with a GOTO to a state other than the start state,
\* a GOTO to the start state and a HALT
C6_Witness ==
  /\ pc = "encoded"
  /\ \E i, j, k \in DOMAIN opc_ :
       /\ opc_[i][1] = "GOTO" /\ opc_[i][4] = IMAX
       /\ opc_[j][1] = "GOTO" /\ opc_[j][4] = 0
       /\ opc_[k][1] = "GOTO" /\ 0 < opc_[k][4] /\ opc_[k][4] < nop_

\* C7: after compile, acc_ has one entry per rule, and the entry of rule k is
\* true if and only if a state reachable from the start state has accept = k.
C7_AcceptVector ==
  pc \in {"compiled", "exported", "compacted", "encoded"} =>
    /\ Len(acc_) = Len(end_)
    /\ \A k \in 1..Len(end_) :
         acc_[k] <=> \E s \in ReachFrom(states, {1}) : states[s].accept = k

\* C7 witness: after compile one rule is marked and another is not
C7_Witness ==
  /\ pc = "compiled"
  /\ \E j, k \in DOMAIN acc_ : acc_[j] /\ ~ acc_[k]

\* C8: for 1 <= n <= m the DFA built from a{n,m} accepts the word of k letters a
\* if and only if n <= k <= m, with m + 1 states (a{2,3}: aa and aaa, 4 states),
\* and the DFA built from a{n,} accepts it if and only if k >= n.
C8_BoundedRepetition ==
  Built =>
    \A n \in 1..MaxRepeat :
      /\ \A m \in n..MaxRepeat :
           rex = RepeatNM(n, m) =>
             /\ Len(states) = m + 1
             /\ \A k \in 0..MaxRun : (AcceptOf(states, Word(k)) = 1) <=> (n <= k /\ k <= m)
      /\ rex = RepeatN(n) =>
           \A k \in 0..MaxRun : (AcceptOf(states, Word(k)) = 1) <=> (k >= n)

\* C8 witness: the DFA of a{2,3} has 4 states and accepts aa and aaa but neither
\* a nor aaaa
C8_Witness ==
  /\ Built
  /\ rex = RepeatNM(2, 3)
  /\ Len(states) = 4
  /\ AcceptOf(states, Word(1)) = 0
  /\ AcceptOf(states, Word(2)) = 1
  /\ AcceptOf(states, Word(3)) = 1
  /\ AcceptOf(states, Word(4)) = 0

\* C9 as stated: when a bound written in a{n,m} is above the Index range,
\* REGEX_RANGE is signalled
C9_AsStated ==
  \A n, m \in {1, IMAX + 2, IMAX + 3} :
    (rex = RepeatNM(n, m) /\ (n > IMAX \/ m > IMAX) /\ pc # "init") =>
      REGEX_RANGE \in Signalled

\* the number of groups open before location i of the regex
Depth(i) ==
  Cardinality({j \in 1..(i - 1) : rex[j] = Ord["("]})
    - Cardinality({j \in 1..(i - 1) : rex[j] = Ord[")"]})

\* C10 as stated, for the regexes over Alphabet: with N the number of top-level
\* alternatives, end_ holds the offset just past each of them, operator[](k) is
\* the text of alternative k for 1 <= k <= N, operator[](0) is the regex and
\* operator[](k) is empty for k > N
C10_AsStated ==
  (pc = "parsed" /\ \A i \in DOMAIN rex : rex[i] \in Alphabet) =>
    LET bars == {i \in DOMAIN rex : rex[i] = Ord["|"] /\ Depth(i) <= 0}
        N == Cardinality(bars) + 1
        ends == Sorted({i - 1 : i \in bars} \cup {Len(rex)})
    IN  /\ end_ = ends
        /\ OperatorIndex(0) = rex
        /\ \A k \in 1..N :
             OperatorIndex(k) = SubSeq(rex, (IF k = 1 THEN 0 ELSE ends[k - 1] + 1) + 1, ends[k])
        /\ OperatorIndex(N + 1) = <<>>

\* C11: compact_dfa is idempotent on the edge maps the builder produces: for
\* every DFA that compile has built, compacting the compacted states again leaves
\* every edge map as it was after the first compaction, and the states that
\* assemble has compacted are a fixed point of compact_dfa.
C11_CompactIdempotent ==
  /\ pc \in {"compiled", "exported"} =>
       compact_dfa(compact_dfa(states)) = compact_dfa(states)
  /\ pc = "compacted" => compact_dfa(states) = states

\* C11 witness: compaction is about to merge two edges into the first edge of a
\* state
C11_Witness ==
  /\ pc = "exported"
  /\ \E s \in DOMAIN states :
       Cardinality(DOMAIN compact_dfa(states)[s].edges) + 2 <= Cardinality(DOMAIN states[s].edges)

\* the State objects made by new State in compile and not deleted: every state
\* of the list but the start state, which is a local object of init
HeapStates == {s \in DOMAIN states : s > 1}

\* C12 as stated: when an error has been raised out of init, every State object
\* allocated during the construction of the DFA has been released and no opcode
\* array is installed
C12_AsStated == pc = "error" => (HeapStates = {} /\ opc_ = <<>>)

\* C13 as stated: a pattern with a lookahead nested in a lookahead of the same
\* rule has the nesting reported as an error
C13_AsStated ==
  (rex \in {NestedFirst, NestedLast} /\ pc # "init") => errs # <<>>

\* C13 amended: a lookahead nested in a lookahead of the same rule is not
\* reported: no error is signalled at any point of the compilation, the rule
\* records the range of the inner lookahead only, the enclosing lookahead is
\* left out of the lookahead map, and a rule of its own keeps its lookahead.
C13_NestedLookaheadIgnored ==
  /\ rex \in {NestedFirst, NestedLast} =>
       /\ errs = <<>>
       /\ pc # "error"
       /\ pc \notin {"init", "given"} =>
            /\ lookahead[1] = InnerRange(rex)
            /\ RangesSize(lookahead[1]) = 1
  /\ (rex = Str(<<"(", "?", "=", "a", ")", "|", "(", "?", "=", "b", ")">>) /\ pc # "init") =>
       (lookahead = <<0..4, 6..10>> /\ errs = <<>>)

\* C13 witness: a pattern with nested lookaheads has been compiled to the end
\* with one lookahead recorded
C13_Witness ==
  /\ rex = NestedFirst
  /\ pc = "done"
  /\ nop_ > 0
  /\ lookahead = <<3..7>>

\* the characters an edge can hold
EdgeChars == (0..255) \cup (META_MIN..META_MAX)

\* C14 as stated: after compaction the edge intervals of every state are
\* pairwise disjoint
C14_AsStated ==
  pc = "compacted" => \A s \in DOMAIN states : EdgesDisjoint(states[s].edges)

\* C14 amended: compact_dfa fuses an edge with a later edge of the same target
\* also across edges of other targets that lie between them, so the intervals of
\* a state may overlap after compaction. Every edge left keeps its lo and its
\* target and ends where an edge of that target ended, and for every character
\* the covering edge with the greatest lo leads to the state the character led
\* to before compaction; a character no edge held is still held by none.
C14_CompactKeepsTargets ==
  pc = "exported" =>
    \A s \in DOMAIN states :
      LET old == states[s].edges
          new == compact_dfa(states)[s].edges
      IN  /\ DOMAIN new \subseteq DOMAIN old
          /\ \A lo \in DOMAIN new :
               /\ new[lo][2] = old[lo][2]
               /\ \E k \in DOMAIN old : k >= lo /\ old[k] = new[lo]
          /\ \A ch \in EdgeChars :
               /\ Step(compact_dfa(states), s, ch) = Step(states, s, ch)
               /\ (\E lo \in DOMAIN new : lo <= ch /\ ch <= new[lo][1])
                    <=> (\E lo \in DOMAIN old : lo <= ch /\ ch <= old[lo][1])

\* C14 witness: compaction is about to leave a state with overlapping edges
C14_Witness ==
  /\ pc = "exported"
  /\ \E s \in DOMAIN states : ~ EdgesDisjoint(compact_dfa(states)[s].edges)

\* the bytes that no edge of an edge map holds
Uncovered(edges) ==
  {ch \in 0..255 : ~ \E lo \in DOMAIN edges : lo <= ch /\ ch <= edges[lo][1]}

\* an edge of the edge map holds the byte 0xff
CoversTop(edges) == \E lo \in DOMAIN edges : lo <= 255 /\ 255 <= edges[lo][1]

\* C15 as stated: a state that has an edge covering 0xff gets no HALT edge
C15_AsStated ==
  pc = "compacted" =>
    \A s \in DOMAIN states :
      CoversTop(states[s].edges) => encode_dfa(states).sts[s].edges = states[s].edges

\* C15 amended: encode_dfa adds the HALT edge to a state, and counts one opcode
\* for it, exactly when some byte is held by no edge of the state; the edge
\* goes from the first such byte to 0xff with a null target, also when an edge
\* above the gap covers 0xff. A state whose edges hold every byte gets none.
\* The opcodes counted for a state are its edges (one per meta character of a
\* meta edge), the HALT edge, its heads and tails, and one for TAKE or REDO.
C15_HaltWhenBytesUncovered ==
  pc = "compacted" =>
    LET r == encode_dfa(states)
    IN  ~ r.thrown =>
          \A s \in DOMAIN states :
            LET old == states[s].edges
                new == r.sts[s].edges
                gap == Uncovered(old)
                next == IF s < Len(states) THEN r.sts[s + 1].index ELSE r.nop
            IN  /\ gap = {} => new = old
                /\ gap # {} =>
                     /\ SetMin(gap) \notin DOMAIN old
                     /\ DOMAIN new = DOMAIN old \cup {SetMin(gap)}
                     /\ new[SetMin(gap)] = <<255, 0>>
                     /\ \A lo \in DOMAIN old : new[lo] = old[lo]
                /\ next - r.sts[s].index =
                     EdgeOpcodes(old) + (IF gap # {} THEN 1 ELSE 0)
                     + Cardinality(states[s].heads) + Cardinality(states[s].tails)
                     + (IF states[s].accept > 0 \/ states[s].redo THEN 1 ELSE 0)

\* C15 witness: encode_dfa is about to give the HALT edge to a state that has an
\* edge covering 0xff, and none to a state whose edges hold every byte
C15_Witness ==
  /\ pc = "compacted"
  /\ ~ encode_dfa(states).thrown
  /\ \E s \in DOMAIN states :
       /\ CoversTop(states[s].edges)
       /\ Uncovered(states[s].edges) # {}
       /\ encode_dfa(states).sts[s].edges # states[s].edges
  /\ \E s \in DOMAIN states : Uncovered(states[s].edges) = {}

\* the opcodes of state s in the opcode array
Segment(s) == SubSeq(opc_, states[s].index + 1, StateEnd(s))

\* the place of an opcode in the order of emission of a state
Rank(op) ==
  CASE op[1] \in {"REDO", "TAKE"} -> 0
    [] op[1] = "TAIL" -> 1
    [] op[1] = "HEAD" -> 2
    [] op[1] = "GOTO" -> 3

\* the lo of the edge of state s that a GOTO opcode was emitted for
EdgeOf(s, op) ==
  IF is_meta(op[2])
  THEN SetMax({lo \in DOMAIN states[s].edges : is_meta(lo) /\ lo <= op[2]})
  ELSE op[2]

\* C16: the opcodes of the states follow each other in the order of the list,
\* and the opcodes of a state are: REDO if the state is redo, else TAKE(accept)
\* if accept > 0 (a state that is redo and accepting emits REDO only); then one
\* TAIL per tail index in ascending order; then one HEAD per head index in
\* ascending order; then the edges in descending order of lo, a meta edge giving
\* one GOTO per meta character from its lo up to its hi.
C16_EmissionOrder ==
  pc = "encoded" =>
    /\ states[1].index = 0
    /\ \A s \in DOMAIN states :
         LET seg == Segment(s)
             st == states[s]
             first == IF st.redo \/ st.accept > 0 THEN 1 ELSE 0
         IN  /\ s < Len(states) => states[s].index <= states[s + 1].index
             /\ Len(seg) = first + Cardinality(st.tails) + Cardinality(st.heads)
                            + EdgeOpcodes(st.edges)
             /\ st.redo => seg[1] = <<"REDO">>
             /\ (~ st.redo /\ st.accept > 0) => seg[1] = <<"TAKE", st.accept>>
             /\ \A i \in DOMAIN seg : Rank(seg[i]) = 0 => i = first
             /\ {seg[i][2] : i \in {j \in DOMAIN seg : seg[j][1] = "TAIL"}} = st.tails
             /\ {seg[i][2] : i \in {j \in DOMAIN seg : seg[j][1] = "HEAD"}} = st.heads
             /\ \A i \in DOMAIN seg :
                  seg[i][1] = "GOTO" =>
                    /\ EdgeOf(s, seg[i]) \in DOMAIN st.edges
                    /\ is_meta(seg[i][2]) => seg[i][3] = seg[i][2]
                    /\ ~ is_meta(seg[i][2]) => seg[i][3] = st.edges[seg[i][2]][1]
             /\ \A i, j \in DOMAIN seg :
                  i < j =>
                    /\ Rank(seg[i]) <= Rank(seg[j])
                    /\ (seg[i][1] = seg[j][1] /\ seg[i][1] \in {"TAIL", "HEAD"}) =>
                         seg[i][2] < seg[j][2]
                    /\ (seg[i][1] = "GOTO" /\ seg[j][1] = "GOTO") =>
                         \/ EdgeOf(s, seg[i]) > EdgeOf(s, seg[j])
                         \/ /\ EdgeOf(s, seg[i]) = EdgeOf(s, seg[j])
                            /\ seg[i][2] < seg[j][2]

\* C16 witness: the opcode array holds the opcodes of a state that is redo and
\* accepting and has a head or a tail, of a state with a tail, of a state with a
\* head, and of a state with two edges or more
C16_Witness ==
  /\ pc = "encoded"
  /\ \E s \in DOMAIN states :
       /\ states[s].redo /\ states[s].accept > 0
       /\ states[s].heads \cup states[s].tails # {}
       /\ Segment(s)[1] = <<"REDO">>
  /\ \E s \in DOMAIN states : states[s].tails # {}
  /\ \E s \in DOMAIN states : states[s].heads # {}
  /\ \E s \in DOMAIN states : Cardinality(DOMAIN states[s].edges) >= 2

\* the call of transition that compile_transition makes for position k, if any:
\* its characters and its follow set
CallOf(a, k) ==
  LET x == a.x
      ch == At(x, p_loc(k))
      literal == is_modified(113, x.modifiers, p_loc(k))
      f == IF p_lazy(k) # 0 THEN LazyFollow(x.followpos, k) ELSE x.followpos
  IN  IF \/ p_accept(k)
         \/ (ch = 47 /\ x.opt.l /\ ~ literal)
         \/ (ch \in {40, 41} /\ ~ literal)
         \/ p_pos(k) \notin DOMAIN x.followpos
         \/ (p_lazy(k) # 0 /\ p_greedy(k))
      THEN [made |-> FALSE, chars |-> {}, follow |-> {}]
      ELSE [made |-> TRUE,
            chars |-> PositionChars([x EXCEPT !.followpos = f], k, literal).chars,
            follow |-> IF p_lazy(k) # 0 THEN f[k] ELSE f[p_pos(k)]]

\* the calls of transition that compile_transition makes for the state the loop
\* of compile is at, one entry per position: the list of moves before and after
RECURSIVE MovesTrace(_, _, _)
MovesTrace(a, ks, la) ==
  IF ks = <<>> THEN <<>>
  ELSE LET Call(b) ==
             <<[before |-> a.moves, after |-> b.moves, call |-> CallOf(a, Head(ks))]>>
             \o MovesTrace(b, Tail(ks), la)
       IN  Call(TransitionOf(a, Head(ks), la))

CurrentTrace ==
  MovesTrace([accept |-> 0, redo |-> FALSE, heads |-> {}, tails |-> {}, moves |-> <<>>,
              x |-> [rex |-> rex, opt |-> opt, modifiers |-> modifiers,
                     followpos |-> followpos, errs |-> errs, shown |-> shown,
                     thrown |-> thrown]],
             Sorted(states[cur].pos), lookahead)

CharsDisjoint(moves) ==
  \A i, j \in DOMAIN moves : i # j => moves[i].chars \cap moves[j].chars = {}

CharsNonEmpty(moves) == \A i \in DOMAIN moves : moves[i].chars # {}

FollowsDistinct(moves) ==
  \A i, j \in DOMAIN moves : i # j => moves[i].follow # moves[j].follow

\* the positions a list of moves leads to on character c
FollowOn(moves, c) == UNION {moves[i].follow : i \in {j \in DOMAIN moves : c \in moves[j].chars}}

\* C17 as the specification states it: a call of transition on a list with pairwise
\* disjoint character sets and pairwise distinct follow sets leaves a list with
\* pairwise disjoint non-empty character sets and no two equal follow sets
C17_AsStated ==
  pc = "compile" =>
    \A n \in DOMAIN CurrentTrace :
      LET t == CurrentTrace[n]
      IN  (t.call.made /\ CharsDisjoint(t.before) /\ FollowsDistinct(t.before)) =>
            /\ CharsDisjoint(t.after) /\ CharsNonEmpty(t.after)
            /\ FollowsDistinct(t.after)

\* C17: a call transition(moves, chars, follow) on a list with pairwise disjoint
\* non-empty character sets leaves a list with pairwise disjoint non-empty
\* character sets; on every character of chars the new list leads to the
\* positions the old list led to joined with follow, and on every other
\* character to the positions the old list led to. Two moves of the new list
\* may have equal follow sets.
C17_MovesStayDisjoint ==
  pc = "compile" =>
    \A n \in DOMAIN CurrentTrace :
      LET t == CurrentTrace[n]
      IN  /\ ~ t.call.made => t.after = t.before
          /\ (t.call.made /\ CharsDisjoint(t.before) /\ CharsNonEmpty(t.before)) =>
                /\ CharsDisjoint(t.after) /\ CharsNonEmpty(t.after)
                /\ \A c \in EdgeChars :
                     FollowOn(t.after, c) =
                       FollowOn(t.before, c)
                       \cup (IF c \in t.call.chars THEN t.call.follow ELSE {})

\* C17 witness: a call of transition that splits a move and a call that joins its
\* follow set to the move it meets, leaving two moves with equal follow sets
C17_Witness ==
  /\ pc = "compile"
  /\ \E n \in DOMAIN CurrentTrace :
       LET t == CurrentTrace[n]
       IN  /\ t.call.made
           /\ Len(t.before) >= 1 /\ Len(t.after) = Len(t.before) + 1
           /\ t.after[1].chars # t.before[1].chars
  /\ \E n \in DOMAIN CurrentTrace :
       LET t == CurrentTrace[n]
       IN  /\ t.call.made
           /\ CharsDisjoint(t.before) /\ FollowsDistinct(t.before)
           /\ CharsDisjoint(t.after) /\ CharsNonEmpty(t.after)
           /\ ~ FollowsDistinct(t.after)

\* the first factor of the regex: the sub-expression X that parse4 reads at
\* location 0, and the result of parse3 for X with its postfix operator
FirstOperand == SkipSpaces(parse4(TRUE, ParseContext(rex, opt)))

FirstFactor == parse3(TRUE, ParseContext(rex, opt))

\* the first factor is X* or X+, greedy or lazy
StarOrPlus == pc # "init" /\ At(FirstOperand, FirstOperand.loc) \in {42, 43}

\* X+ of an X that is not nullable while a lazy quantifier is in force: the + is
\* lazy itself or X holds a lazy quantifier
LazyPlus ==
  /\ At(FirstOperand, FirstOperand.loc) = 43
  /\ ~ FirstOperand.nullable
  /\ FirstFactor.lazypos # {}

\* C18 as the specification states it: after parse3 has processed X* or X+, greedy
\* or lazy, followpos[p] holds the firstpos that parse3 returns, for every
\* position p of lastpos(X)
C18_AsStated ==
  StarOrPlus =>
    \A p \in FirstOperand.lastpos :
      FirstFactor.firstpos \subseteq FirstFactor.followpos[p_pos(p)]

\* C18: after parse3 has processed X* or X+, for every position p of lastpos(X):
\* followpos[p] holds the firstpos that parse3 returns, unless the quantifier is +,
\* X is not nullable and a lazy quantifier is in force (X+? or a lazy quantifier
\* inside X); then followpos[p] holds the lazy copies of the returned firstpos,
\* one per lazy location, and the returned firstpos is the firstpos of X (made
\* greedy when the + is greedy) joined with these lazy copies.
C18_FollowClosure ==
  StarOrPlus =>
    \A p \in FirstOperand.lastpos :
      /\ p_pos(p) \in DOMAIN FirstFactor.followpos
      /\ ~ LazyPlus => FirstFactor.firstpos \subseteq FirstFactor.followpos[p_pos(p)]
      /\ LazyPlus =>
           /\ lazy3(FirstFactor.lazypos, FirstFactor.firstpos)
                \subseteq FirstFactor.followpos[p_pos(p)]
           /\ \E base \in {IF At(FirstOperand, FirstOperand.loc + 1) = 63
                            THEN FirstOperand.firstpos
                            ELSE greedy(FirstOperand.firstpos)} :
                FirstFactor.firstpos = base \cup lazy3(FirstFactor.lazypos, base)

\* C18 witness: a lazy X+ whose returned firstpos holds a position that
\* followpos[p] lacks, for a position p of lastpos(X)
C18_Witness ==
  /\ StarOrPlus /\ LazyPlus
  /\ pc = "parsed"
  /\ \E p \in FirstOperand.lastpos :
       /\ ~ (FirstFactor.firstpos \subseteq FirstFactor.followpos[p_pos(p)])
       /\ FirstFactor.followpos[p_pos(p)] \subseteq followpos[p_pos(p)]

\* the memoized entries of followpos: its keys that are lazy positions
Memoized == {k \in DOMAIN followpos : p_lazy(k) # 0}

\* C19 as the specification states it: the memoized entry of a lazy position p
\* holds, for every target t of followpos[p.pos()], t itself if t is ticked or
\* lazy already, and otherwise t with the lazy value of p
C19_AsStated ==
  \A k \in Memoized :
    followpos[k] = {IF p_ticked(t) \/ p_lazy(t) # 0 THEN t ELSE set_lazy(t, p_lazy(k)) :
                      t \in followpos[p_pos(k)]}

\* C19: the memoized entry of a lazy position p holds, for every target t of
\* followpos[p.pos()], t itself if t is ticked, and otherwise t with the lazy
\* value of p, whether t was lazy already or not; the entries of the positions
\* that are not lazy are left as parse made them.
C19_LazyMemo ==
  /\ \A k \in Memoized :
       /\ p_pos(k) \in DOMAIN followpos
       /\ followpos[k] = {IF p_ticked(t) THEN t ELSE set_lazy(t, p_lazy(k)) :
                            t \in followpos[p_pos(k)]}
  /\ pc \in {"compile", "compiled"} =>
       /\ \A k \in DOMAIN followpos \ Memoized :
            k \in DOMAIN parse(rex, opt).c.followpos
            /\ followpos[k] = parse(rex, opt).c.followpos[k]
       /\ \A s \in 1..(cur - 1) : \A k \in states[s].pos :
            (/\ p_lazy(k) # 0 /\ ~ p_greedy(k) /\ ~ p_accept(k)
             /\ p_pos(k) \in DOMAIN followpos
             /\ At([rex |-> rex], p_loc(k)) \notin {40, 41, 47})
            => k \in Memoized

\* C19 witness: a memoized entry made of a followpos that holds a target that is
\* not ticked and has a lazy value other than the one of the memoizing position
C19_Witness ==
  /\ pc = "compiled"
  /\ \E k \in Memoized : \E t \in followpos[p_pos(k)] :
       /\ ~ p_ticked(t) /\ p_lazy(t) # 0 /\ p_lazy(t) # p_lazy(k)
       /\ set_lazy(t, p_lazy(k)) \in followpos[k]
       /\ t \notin followpos[k]

\* the context parse begins with, and the location of the character that ends the
\* modifiers of a group (? at location 0
OuterContext == ParseContext(rex, init_options(optstr))

ModifiersEnd == SetMin({l \in 2..Len(rex) : At(OuterContext, l) \in {0, 41, 58}})

\* the regex begins with a modifier group that is not the global form (?imqsx)
ScopedGroup ==
  /\ pc # "init"
  /\ Len(rex) >= 4
  /\ At(OuterContext, 0) = 40 /\ At(OuterContext, 1) = 63
  /\ \A l \in 2..(ModifiersEnd - 1) : At(OuterContext, l) \in {105, 108, 109, 113, 115, 120}
  /\ ModifiersEnd > 2
  /\ At(OuterContext, ModifiersEnd) = 58

\* the options after parse4 has read the group at location 0
AfterGroup == parse4(TRUE, OuterContext).opt

\* C20 as the specification states it: after a modifier group that is not the global
\* form has closed, each of the flags i, l, m, q, s, x has the value it had
\* before the group was opened
C20_AsStated ==
  ScopedGroup =>
    /\ AfterGroup.i = OuterContext.opt.i
    /\ AfterGroup.l = OuterContext.opt.l
    /\ AfterGroup.m = OuterContext.opt.m
    /\ AfterGroup.q = OuterContext.opt.q
    /\ AfterGroup.s = OuterContext.opt.s
    /\ AfterGroup.x = OuterContext.opt.x

\* C20, what the code does: the flags i, m, q, s, x have their former values after
\* the group, and l is set after a group that names it
C20_AllButLexMode ==
  ScopedGroup =>
    /\ AfterGroup.i = OuterContext.opt.i
    /\ AfterGroup.m = OuterContext.opt.m
    /\ AfterGroup.q = OuterContext.opt.q
    /\ AfterGroup.s = OuterContext.opt.s
    /\ AfterGroup.x = OuterContext.opt.x
    /\ AfterGroup.l =
         (OuterContext.opt.l \/ \E l \in 2..(ModifiersEnd - 1) : At(OuterContext, l) = 108)

\* C20: a group (?l: that has closed, with l set in the options of the pattern
\* that did not have it, and a group that set other flags
C20_LexModeLeaks ==
  /\ ScopedGroup
  /\ pc = "parsed"
  /\ ~ OuterContext.opt.l
  /\ AfterGroup.l /\ opt.l

\* the locations of the escapes \x{ and \u{ of the regex
HexBraces ==
  {loc \in 0..(Len(rex) - 1) :
     /\ At([rex |-> rex], loc) = 92
     /\ At([rex |-> rex], loc + 1) \in {117, 120}
     /\ At([rex |-> rex], loc + 2) = 123
     /\ IsXDigit(At([rex |-> rex], loc + 3))}

\* the characters compile_esc puts in an empty set for the escape at location loc
EscChars(loc) ==
  compile_esc([chars |-> {}, loc |-> loc, ret |-> 0] @@ ParseContext(rex, opt), loc + 1).chars

\* the value of the hex digits between the braces of the escape at location loc
BraceValue(loc) == StrtoulFrom([rex |-> rex], loc + 3, Len(rex), 16, 0)

\* C21 as the specification states it: the byte compile_esc puts in the character
\* set for an escape \x{H...} or \u{H...} is the value of the hex digits between
\* the braces of that escape, wherever the escape is in the pattern
C21_AsStated ==
  pc # "init" =>
    \A loc \in HexBraces :
      BraceValue(loc) <= 255 => EscChars(loc) = {BraceValue(loc)}

\* C21, what the code does: the byte is the value of the hex digits found at
\* offset 2 of the pattern, whatever the location of the escape
C21_ReadsOffsetTwo ==
  pc # "init" =>
    \A loc \in HexBraces :
      \E v \in {StrtoulFrom([rex |-> rex], 2, Len(rex), 16, 0)} :
        EscChars(loc) = IF v <= 255 THEN {v} ELSE {}

\* C21: the pattern \x{41} compiled to a start state with an edge on byte 0 and
\* none on byte 0x41
C21_ZeroForHexBrace ==
  /\ pc = "compiled"
  /\ HexBraces = {0}
  /\ BraceValue(0) = 65
  /\ EscChars(0) = {0}
  /\ Step(states, 1, 0) # 0
  /\ Step(states, 1, 65) = 0

\* C22 as the specification states it: no file is opened or written before the
\* DFA has been compacted and the opcode array has been produced
C22_AsStated == io # <<>> => pc \in {"encoded", "deleted", "done"}

\* C22: no file is written before compile has built the DFA; the graph files
\* (.gv) of the options are written by export_dfa right after compile, before
\* compact_dfa and encode_dfa, and the code files by export_code at the very
\* end, after the opcode array has been produced and the DFA deleted.
C22_GraphBeforeCompaction ==
  /\ pc \in {"init", "given", "parsed", "compile", "compiled"} => io = <<>>
  /\ pc # "done" => \A k \in DOMAIN io : io[k][1] = "graph"
  /\ \A j, k \in DOMAIN io : (j < k /\ io[j][1] = "code") => io[k][1] = "code"
  /\ pc \in {"exported", "compacted", "encoded", "deleted", "done"} =>
       \A k \in DOMAIN opt.f :
         HasSuffix(opt.f[k], <<46, 103, 118>>) =>
           \E j \in DOMAIN io : io[j] = <<"graph", opt.f[k]>>
  /\ (pc = "error" /\ io # <<>>) => (CODE_OVERFLOW \in {errs[k][1] : k \in DOMAIN errs})

\* C22 witness: a graph file has been written and the DFA is neither compacted
\* nor encoded
C22_Witness ==
  /\ pc = "exported"
  /\ \E k \in DOMAIN io : io[k][1] = "graph"
  /\ opc_ = <<>>
  /\ compact_dfa(states) # states

\* the edges of an edge map that hold byte ch
Holding(edges, ch) == {lo \in DOMAIN edges : lo <= ch /\ ch <= edges[lo][1]}

\* C23: compact_dfa preserves the transition function as the matcher reads it.
\* In the step that compacts the DFA, for every state and every byte c of
\* 0..255: before the step at most one edge holds c; the first edge holding c
\* in descending order of lo after the step leads to the target of the edge
\* that held c before the step; c is held by an edge after the step exactly
\* when it was held before. The list of states, and everything of a state but
\* its edges, is left as it was.
C23_CompactPreservesStep ==
  [][(pc = "exported" /\ pc' = "compacted") =>
       /\ Len(states') = Len(states)
       /\ \A s \in DOMAIN states :
            /\ [states'[s] EXCEPT !.edges = states[s].edges] = states[s]
            /\ \A c \in 0..255 :
                 /\ Cardinality(Holding(states[s].edges, c)) <= 1
                 /\ (Holding(states'[s].edges, c) = {}) <=> (Holding(states[s].edges, c) = {})
                 /\ Holding(states[s].edges, c) # {} =>
                      states'[s].edges[SetMax(Holding(states'[s].edges, c))][2]
                        = states[s].edges[SetMax(Holding(states[s].edges, c))][2]]_vars

\* C23 witness: a compacted DFA with a state where two edges hold the same byte,
\* the one with the greater lo leading to another state than the other
C23_Witness ==
  /\ pc = "compacted"
  /\ \E s \in DOMAIN states : \E c \in 0..255 :
       \E lo1, lo2 \in Holding(states[s].edges, c) :
         lo1 < lo2 /\ states[s].edges[lo1][2] # states[s].edges[lo2][2]

\* the moves of a list whose character set holds c
MovesOn(moves, c) == {i \in DOMAIN moves : c \in moves[i].chars}

\* C24: transition implements the merge of the subset construction. After a call
\* transition(moves, chars, follow) on a list with disjoint character sets, for
\* every symbol s: at most one move holds s; s is held by a move exactly when it
\* was held before or is in chars; the follow set of the move that holds s is
\* the follow set of the move that held s before the call (the empty set if
\* none did) joined with follow when s is in chars, and the follow set of the
\* move that held s before when s is not in chars.
C24_SubsetMerge ==
  pc = "compile" =>
    \A n \in DOMAIN CurrentTrace :
      \E t \in {CurrentTrace[n]} :
        (t.call.made /\ CharsDisjoint(t.before)) =>
          \A c \in EdgeChars :
            /\ Cardinality(MovesOn(t.after, c)) <= 1
            /\ (MovesOn(t.after, c) # {}) <=> (MovesOn(t.before, c) # {} \/ c \in t.call.chars)
            /\ \A i \in MovesOn(t.after, c) :
                 t.after[i].follow =
                   (IF MovesOn(t.before, c) = {} THEN {}
                    ELSE t.before[CHOOSE j \in MovesOn(t.before, c) : TRUE].follow)
                   \cup (IF c \in t.call.chars THEN t.call.follow ELSE {})

\* C24 witness: a call of transition whose characters are held in part by a move
\* with another follow set, which it splits, and in part by no move
C24_Witness ==
  /\ pc = "compile"
  /\ \E n \in DOMAIN CurrentTrace :
       \E t \in {CurrentTrace[n]} :
         /\ t.call.made
         /\ \E c \in t.call.chars : \E i \in MovesOn(t.before, c) :
              /\ ~ (t.call.follow \subseteq t.before[i].follow)
              /\ ~ (t.before[i].chars \subseteq t.call.chars)
         /\ \E c \in t.call.chars : MovesOn(t.before, c) = {}

\* the opcode the emission pass writes first for state s
FirstOpcode(s) ==
  LET st == states[s]
      top == SetMax(DOMAIN st.edges)
      target == IF st.edges[top][2] = 0 THEN IMAX ELSE states[st.edges[top][2]].index
  IN  IF st.redo THEN <<"REDO">>
      ELSE IF st.accept > 0 THEN <<"TAKE", st.accept>>
      ELSE IF st.tails # {} THEN <<"TAIL", SetMin(st.tails)>>
      ELSE IF st.heads # {} THEN <<"HEAD", SetMin(st.heads)>>
      ELSE <<"GOTO", top, IF is_meta(top) THEN top ELSE st.edges[top][1], target>>

\* C25: when encode_dfa completes without raising, the emission pass writes as
\* many opcodes as nop_ counts, nop_ being the size of the array, and the first
\* opcode written for each state is at the index assigned to the state: the
\* indices begin at 0 and ascend strictly along the list, every state has an
\* opcode, and the array is written from its first to its last element.
C25_CountMatchesEmission ==
  pc = "encoded" =>
    /\ thrown = "none"
    /\ Len(opc_) = nop_
    /\ nop_ > 0
    /\ states[1].index = 0
    /\ \A s \in DOMAIN states :
         /\ states[s].index < StateEnd(s)
         /\ StateEnd(s) <= nop_
         /\ DOMAIN states[s].edges # {}
         /\ opc_[states[s].index + 1] = FirstOpcode(s)
    /\ \A i \in 1..nop_ : opc_[i][1] \in {"REDO", "TAKE", "TAIL", "HEAD", "GOTO"}

\* C25 witness: an opcode array written for three states or more, one of them
\* with a meta edge of two characters, for which two opcodes are counted
C25_Witness ==
  /\ pc = "encoded"
  /\ Len(states) >= 3
  /\ Len(opc_) = nop_
  /\ \E s \in DOMAIN states : \E lo \in DOMAIN states[s].edges :
       is_meta(lo) /\ states[s].edges[lo][1] > lo

\* the opcodes of one state of the compacted DFA, counted without wrapping
OwnCount(st) ==
  EdgeOpcodes(st.edges)
  + (IF CoveredTo(st.edges, NextKey(st.edges, -1), 0) <= 255 THEN 1 ELSE 0)
  + Cardinality(st.heads) + Cardinality(st.tails)
  + (IF st.accept > 0 \/ st.redo THEN 1 ELSE 0)

\* the opcodes of the states 1..s of the compacted DFA, counted without wrapping
RECURSIVE CountTo(_)
CountTo(s) == IF s = 0 THEN 0 ELSE CountTo(s - 1) + OwnCount(states[s])

\* C26: the HALT sentinel never collides with a state. For a compacted DFA whose
\* states each count fewer opcodes than the Index range: when the count of the
\* opcodes of the states up to some state is beyond IMAX, the running count
\* wraps and encode_dfa raises CODE_OVERFLOW and produces no opcode; when
\* encode_dfa does not raise, the count never wrapped, every state has an
\* index below IMAX, and every GOTO that carries IMAX was emitted for an edge
\* with a null target. After CODE_OVERFLOW there is no opcode array.
C26_HaltNeverAState ==
  /\ pc = "compacted" =>
       \E r \in {encode_dfa(states)} :
         /\ \A s \in DOMAIN states : OwnCount(states[s]) < IndexMod
         /\ r.thrown <=> (CountTo(Len(states)) > IMAX)
         /\ r.thrown => r.opc = <<>>
         /\ ~ r.thrown =>
              /\ r.nop = CountTo(Len(states))
              /\ \A s \in DOMAIN states :
                   /\ r.sts[s].index = CountTo(s - 1)
                   /\ r.sts[s].index < IMAX
              /\ \A s \in DOMAIN states :
                   \A i \in (r.sts[s].index + 1)..CountTo(s) :
                     (r.opc[i][1] = "GOTO" /\ r.opc[i][4] = IMAX) =>
                       \E lo \in DOMAIN r.sts[s].edges :
                         /\ r.sts[s].edges[lo][2] = 0
                         /\ lo <= r.opc[i][2] /\ r.opc[i][3] <= r.sts[s].edges[lo][1]
  /\ (pc = "error" /\ CODE_OVERFLOW \in {errs[k][1] : k \in DOMAIN errs}) =>
       (opc_ = <<>> /\ thrown = CODE_OVERFLOW)

\* C26 witness: a DFA whose opcode count is beyond IMAX, and CODE_OVERFLOW
\* raised for it with no opcode array
C26_Witness ==
  /\ pc = "error"
  /\ thrown = CODE_OVERFLOW
  /\ opc_ = <<>>
  /\ Len(states) >= 2
  /\ CountTo(Len(states)) > IMAX
  /\ \A s \in DOMAIN states : OwnCount(states[s]) < IndexMod

\* C26 witness of the other case: an opcode array of IMAX opcodes or fewer whose
\* last state begins below IMAX
C26_Encoded ==
  /\ pc = "encoded"
  /\ nop_ >= IMAX - 3
  /\ states[Len(states)].index < IMAX

\* C27 as the specification states it: when parse returns with no error signalled,
\* the last entry of end_ is the length of the regex and no entry of end_ is
\* beyond it
C27_AsStated ==
  (pc = "parsed" /\ errs = <<>>) =>
    /\ end_ # <<>>
    /\ end_[Len(end_)] = Len(rex)
    /\ \A k \in DOMAIN end_ : end_[k] <= Len(rex)

\* C27, what the code does: with no error signalled, no entry of end_ is beyond
\* the regex, and parse ends before the end of the regex only at a closing
\* parenthesis, which it leaves unparsed with the text after it
C27_StopsAtParenthesis ==
  (pc = "parsed" /\ errs = <<>>) =>
    /\ end_ # <<>>
    /\ \A k \in DOMAIN end_ : end_[k] <= Len(rex)
    /\ end_[Len(end_)] < Len(rex) => rex[end_[Len(end_)] + 1] = 41

\* C27: parse has returned for a)b with no error and the only endpoint 1
C27_SuffixDropped ==
  /\ pc = "parsed"
  /\ errs = <<>>
  /\ rex = Str(<<"a", ")", "b">>)
  /\ end_ = <<1>>
  /\ \A k \in DOMAIN followpos : p_loc(k) # 2

\* the regex begins with a bracket list that parse4 reads to its closing ]
ListAtStart ==
  /\ pc # "init"
  /\ Len(rex) >= 1
  /\ rex[1] = 91
  /\ parse4(TRUE, OuterContext).errs = <<>>

\* the offset of the ] at which parse4 ends the list that begins the regex
ParsedListEnd == parse4(TRUE, OuterContext).loc - 1

\* the offset at which compile_list stops for the list that begins the regex
CompiledListEnd ==
  compile_list([chars |-> {}, loc |-> 0, ret |-> 0] @@ ParseContext(rex, opt), 1).loc

\* the list that begins the regex holds an escaped ] before the ] that ends it for
\* parse4, or ends for parse4 at an escaped ]
EscapedBracket ==
  \E k \in 1..ParsedListEnd : At(OuterContext, k - 1) = 92 /\ At(OuterContext, k) = 93

\* C28 as the specification states it: compile_list stops at the ] at which parse4
\* ended the list, also when the list holds an escaped ] or a POSIX class
C28_AsStated == ListAtStart => CompiledListEnd = ParsedListEnd

\* C28, what the code does: the two offsets are equal when the list holds no
\* escaped ] or when option b makes the backslash an ordinary character of a
\* list; for an escaped ] parse4 ends the list at the escaped ] and compile_list
\* goes on to a later ]
C28_AgreeUnlessEscaped ==
  ListAtStart =>
    /\ (~ EscapedBracket \/ opt.b) => CompiledListEnd = ParsedListEnd
    /\ CompiledListEnd >= ParsedListEnd

\* C28: for the regex [\]] parse4 has ended the list at offset 2 and compile_list
\* stops at offset 3, the DFA matching two characters ] instead of one
C28_ListsDisagree ==
  /\ ListAtStart
  /\ pc = "compiled"
  /\ errs = <<>>
  /\ rex = <<91, 92, 93, 93>>
  /\ ParsedListEnd = 2
  /\ CompiledListEnd = 3
  /\ Step(states, 1, 93) # 0
  /\ states[Step(states, 1, 93)].accept = 0
  /\ Step(states, Step(states, 1, 93), 93) # 0

\* the option string ends with the option e, or e=, without a value
EndsWithEscapeOption ==
  /\ Len(optstr) >= 1
  /\ \/ optstr[Len(optstr)] = 101
     \/ Len(optstr) >= 2 /\ optstr[Len(optstr)] = 61 /\ optstr[Len(optstr) - 1] = 101

\* C29 as the specification states it: the cursor of init_options stops at the
\* terminator of the option string and is never advanced beyond it
C29_AsStated == pc \notin {"init", "given"} => ~ opt.overread

\* C29, what the code does: the cursor passes the terminator only for an option
\* string that ends with e or e=; a string that ends with f, f=, n or n= is read
\* up to its terminator
C29_OnlyEscapeOverreads ==
  pc \notin {"init", "given"} =>
    /\ opt.overread => EndsWithEscapeOption
    /\ (Len(optstr) >= 1 /\ optstr[Len(optstr)] \in {102, 110}) => ~ opt.overread
    /\ (Len(optstr) >= 2 /\ optstr[Len(optstr)] = 61
        /\ optstr[Len(optstr) - 1] \in {102, 110}) => ~ opt.overread

\* C29: init_options has read beyond the terminator of the option string "e" and
\* set option r from what stood there
C29_ReadsPastTerminator ==
  /\ pc = "parsed"
  /\ optstr = <<101>>
  /\ opt.overread
  /\ opt.e = 0
  /\ opt.r

\* the locations at which an iteration of the concatenation loop of parse2 can
\* begin: the characters other than NUL, | and )
LoopLocations == {k \in 0..(Len(rex) - 1) : At([rex |-> rex], k) \notin {0, 41, 124}}

\* the location after one iteration of the loop of parse2 begun at location k
AfterFactor(k) == parse3(FALSE, [ParseContext(rex, opt) EXCEPT !.loc = k])

\* init has returned or thrown
Terminated == pc \in {"done", "error", "given"}

\* what holds while init runs: an iteration of the loop of parse2 ends beyond the
\* location it began at unless it throws; compile has processed the states
\* before the one its loop is at, once each, vno_ counting them; the states of
\* the list have distinct position sets
Progress ==
  /\ pc = "parsed" =>
       \A k \in LoopLocations :
         \E r \in {AfterFactor(k)} : r.thrown = "none" => (r.loc > k /\ r.loc <= Len(rex) + 1)
  /\ pc = "compile" => (cur <= Len(states) /\ vno_ = cur - 1)
  /\ pc \in {"compiled", "exported", "compacted"} => (cur = Len(states) + 1 /\ vno_ = Len(states))
  /\ pc \in {"compile", "compiled", "exported", "compacted"} =>
       \A i, j \in DOMAIN states : i # j => states[i].pos # states[j].pos

\* C30: compilation terminates. For every regex and option string, also when
\* errors are signalled and not raised: each iteration of the concatenation loop
\* of parse2 advances the location, compile processes each state of the list
\* once, vno_ being the number of distinct states at its end, and init reaches
\* its end or a throw.
C30_Terminates ==
  /\ []Progress
  /\ [][<<Resume>>_<<pc, cur>>]_vars
  /\ <>Terminated

\* C30 witness: init has come to its end for a regex with errors signalled and
\* not raised, and compile has processed three states or more
C30_Witness ==
  /\ pc = "done"
  /\ errs # <<>>
  /\ thrown = "none"
  /\ vno_ >= 3

=============================================================================
